---------------------------- MODULE Spec2Model ----------------------------
(***************************************************************************)
(* State-machine model of the snork decision engine:                       *)
(*   - the game simulator (src/src/game/game.rs): Snake, Game, outcome,    *)
(*     valid_moves, step;                                                  *)
(*   - the iterative-deepening max-n driver (src/src/agents/maxn.rs).      *)
(***************************************************************************)
EXTENDS Integers, Sequences, FiniteSets, TLC

(***************************************************************************)
(* Bounds of the model.                                                    *)
(***************************************************************************)
Width == 3
Height == 3
MaxSteps == 2

(***************************************************************************)
(* env.rs: directions, positions, hazard damage.                           *)
(***************************************************************************)
Up == 0
Right == 1
Down == 2
Left == 3
Directions == <<Up, Right, Down, Left>>
DirSet == {Up, Right, Down, Left}

HAZARD_DAMAGE == 15

Apply(p, d) ==
    CASE d = Up    -> <<p[1], p[2] + 1>>
      [] d = Right -> <<p[1] + 1, p[2]>>
      [] d = Down  -> <<p[1], p[2] - 1>>
      [] OTHER     -> <<p[1] - 1, p[2]>>

Within(p, w, h) == p[1] >= 0 /\ p[1] < w /\ p[2] >= 0 /\ p[2] < h

(***************************************************************************)
(* Grid and Cell.  A cell carries the three flags of Cell::new(food,       *)
(* owned, hazard) (game.rs:313-314).                                       *)
(***************************************************************************)
Cells == (0 .. Width - 1) \X (0 .. Height - 1)

CellNew(food, owned, hazard) == [food |-> food, owned |-> owned, hazard |-> hazard]
CellEmpty == CellNew(FALSE, FALSE, FALSE)

Has(p) == Within(p, Width, Height)

SetOwned(g, p, v) == [g EXCEPT ![p].owned = v]
SetFood(g, p, v) == [g EXCEPT ![p].food = v]

GridNew == [c \in Cells |-> CellEmpty]
AddFood(g, food) == [c \in Cells |-> IF c \in food THEN [g[c] EXCEPT !.food = TRUE] ELSE g[c]]
AddHazards(g, hz) == [c \in Cells |-> IF c \in hz THEN [g[c] EXCEPT !.hazard = TRUE] ELSE g[c]]
AddSnake(g, body) ==
    [c \in Cells |-> IF \E k \in 1 .. Len(body) : body[k] = c
                     THEN [g[c] EXCEPT !.owned = TRUE] ELSE g[c]]

(***************************************************************************)
(* Snake (game.rs:23-45).  body is ordered tail to head.                   *)
(***************************************************************************)
SnakeNew(id, body, health) == [id |-> id, body |-> body, health |-> health]
Alive(s) == s.health > 0
SnakeHead(s) == s.body[Len(s.body)]

\* u8::wrapping_sub in the place of saturating_sub
WrappingSub(a, b) == (a - b) % 256

\* u8::saturating_sub
SaturatingSub(a, b) == IF a > b THEN a - b ELSE 0

(***************************************************************************)
(* Game (game.rs:61-66): a record [snakes, grid]; snakes[i + 1] is the     *)
(* snake with id i.                                                        *)
(***************************************************************************)
GameOf(sn, gr) == [snakes |-> sn, grid |-> gr]

RECURSIVE ResetSnakes(_, _, _)
ResetSnakes(gr, sn, i) ==
    IF i > Len(sn) THEN gr ELSE ResetSnakes(AddSnake(gr, sn[i].body), sn, i + 1)

\* Game::reset
Reset(sn, food, hazards) ==
    GameOf(sn, ResetSnakes(AddHazards(AddFood(GridNew, food), hazards), sn, 1))

\* Game::outcome
OutcomeNone == [tag |-> "None"]
OutcomeMatch == [tag |-> "Match"]
OutcomeWinner(id) == [tag |-> "Winner", id |-> id]

RECURSIVE OutcomeLoop(_, _, _, _)
OutcomeLoop(sn, i, living, survivor) ==
    IF i > Len(sn) THEN
        CASE living = 0 -> OutcomeMatch
          [] living = 1 -> OutcomeWinner(survivor)
          [] OTHER      -> OutcomeNone
    ELSE IF Alive(sn[i]) THEN OutcomeLoop(sn, i + 1, living + 1, sn[i].id)
    ELSE OutcomeLoop(sn, i + 1, living, survivor)

\* the survivor is taken to be the first snake of the list
OutcomeFirstSnake(g) ==
    LET o == OutcomeLoop(g.snakes, 1, 0, 0)
    IN IF o.tag = "Winner" THEN [tag |-> "Winner", id |-> g.snakes[1].id] ELSE o

Outcome(g) == OutcomeLoop(g.snakes, 1, 0, 0)

\* Game::snake_is_alive
SnakeIsAlive(g, id) == id < Len(g.snakes) /\ Alive(g.snakes[id + 1])

\* any tail of a living snake counts as free, stacked or not
SnakeMoveIsValidAnyTail(g, s, dir) ==
    LET p == Apply(s.body[Len(s.body)], dir) IN
    /\ Within(p, Width, Height)
    /\ \/ ~g.grid[p].owned
       \/ \E k \in 1 .. Len(g.snakes) : g.snakes[k].health > 0 /\ p = g.snakes[k].body[1]

\* Game::snake_move_is_valid
SnakeMoveIsValid(g, s, dir) ==
    LET p == Apply(SnakeHead(s), dir) IN
    /\ Has(p)
    /\ \/ ~g.grid[p].owned
       \/ \E k \in 1 .. Len(g.snakes) :
             /\ Alive(g.snakes[k])
             /\ p = g.snakes[k].body[1]
             /\ p # g.snakes[k].body[2]

\* Game::move_is_valid
MoveIsValid(g, id, dir) ==
    IF SnakeIsAlive(g, id) THEN SnakeMoveIsValid(g, g.snakes[id + 1], dir) ELSE FALSE

\* ValidMoves::next, run to exhaustion: the directions yielded, in order
RECURSIVE ValidMovesFrom(_, _, _)
ValidMovesFrom(g, s, dir) ==
    IF dir >= 4 THEN <<>>
    ELSE IF SnakeMoveIsValid(g, s, dir)
         THEN <<dir>> \o ValidMovesFrom(g, s, dir + 1)
         ELSE ValidMovesFrom(g, s, dir + 1)

\* Game::valid_moves
ValidMoves(g, id) ==
    IF SnakeIsAlive(g, id) THEN ValidMovesFrom(g, g.snakes[id + 1], 0) ELSE <<>>

(***************************************************************************)
(* Game::step (game.rs:190-269), one operator per loop.                    *)
(***************************************************************************)
\* the tail cell is released even when the next segment is stacked on it
PopTailAlways(g) ==
    LET sn == g.snakes
        vacated == {c \in Cells : \E i \in 1 .. Len(sn) :
                        Alive(sn[i]) /\ sn[i].body[1] = c}
    IN GameOf([i \in 1 .. Len(sn) |->
                  IF Alive(sn[i]) THEN [sn[i] EXCEPT !.body = Tail(@)] ELSE sn[i]],
              [c \in Cells |-> IF c \in vacated THEN [g.grid[c] EXCEPT !.owned = FALSE]
                                                ELSE g.grid[c]])

\* the tail is popped but its cell stays Owned
PopTailKeepsOwned(g) ==
    [snakes |-> [i \in 1 .. Len(g.snakes) |->
                    IF g.snakes[i].health > 0
                    THEN [g.snakes[i] EXCEPT !.body = Tail(@)] ELSE g.snakes[i]],
     grid |-> g.grid]

\* Pop tail (game.rs:193-202)
PopTail(g) ==
    LET sn == g.snakes
        vacated == {c \in Cells : \E i \in 1 .. Len(sn) :
                        /\ Alive(sn[i])
                        /\ sn[i].body[1] = c
                        /\ sn[i].body[2] # c}
    IN GameOf([i \in 1 .. Len(sn) |->
                  IF Alive(sn[i]) THEN [sn[i] EXCEPT !.body = Tail(@)] ELSE sn[i]],
              [c \in Cells |-> IF c \in vacated THEN [g.grid[c] EXCEPT !.owned = FALSE]
                                                ELSE g.grid[c]])

\* the head moves onto Owned cells without harm
MoveHeadThroughBodies(s, grid, dir) ==
    LET head == Apply(s.body[Len(s.body)], dir) IN
    IF s.health = 0 THEN s
    ELSE IF ~Within(head, Width, Height) THEN [s EXCEPT !.health = 0]
    ELSE [s EXCEPT !.body = Append(@, head),
                   !.health = IF grid[head].food THEN 100
                              ELSE SaturatingSub(s.health,
                                                 IF grid[head].hazard THEN HAZARD_DAMAGE
                                                 ELSE 1)]

\* Move head & eat, one snake (game.rs:206-232)
MoveHead(s, grid, dir) ==
    LET head == Apply(SnakeHead(s), dir) IN
    IF ~Alive(s) THEN s
    ELSE IF ~Has(head) THEN [s EXCEPT !.health = 0]
    ELSE LET moved == [s EXCEPT !.body = Append(@, head)]
             g_cell == grid[head]
         IN IF g_cell.owned THEN [moved EXCEPT !.health = 0]
            ELSE [moved EXCEPT !.health =
                     IF g_cell.food THEN 100
                     ELSE SaturatingSub(s.health,
                                        IF g_cell.hazard THEN HAZARD_DAMAGE ELSE 1)]

\* Move head & eat, all snakes (game.rs:205-233)
MoveHeads(g, moves) ==
    GameOf([i \in 1 .. Len(g.snakes) |->
               MoveHead(g.snakes[i], g.grid, moves[g.snakes[i].id + 1])],
           g.grid)

\* the comparison of the lengths is the wrong way round
HeadToHeadPairShorterWins(sn, i, j) ==
    IF sn[j].health > 0 /\ sn[i].body[Len(sn[i].body)] = sn[j].body[Len(sn[j].body)] THEN
        CASE Len(sn[i].body) > Len(sn[j].body) -> [sn EXCEPT ![i].health = 0]
          [] Len(sn[i].body) < Len(sn[j].body) -> [sn EXCEPT ![j].health = 0]
          [] OTHER -> [sn EXCEPT ![i].health = 0, ![j].health = 0]
    ELSE sn

\* Check head to head (game.rs:237-253)
HeadToHeadPair(sn, i, j) ==
    IF Alive(sn[j]) /\ SnakeHead(sn[i]) = SnakeHead(sn[j]) THEN
        CASE Len(sn[i].body) < Len(sn[j].body) -> [sn EXCEPT ![i].health = 0]
          [] Len(sn[i].body) > Len(sn[j].body) -> [sn EXCEPT ![j].health = 0]
          [] OTHER -> [sn EXCEPT ![i].health = 0, ![j].health = 0]
    ELSE sn

\* the inner loop ends as soon as snake i is dead
RECURSIVE HeadToHeadInnerUntilDead(_, _, _)
HeadToHeadInnerUntilDead(sn, i, j) ==
    IF j > Len(sn) \/ ~Alive(sn[i]) THEN sn
    ELSE HeadToHeadInnerUntilDead(HeadToHeadPair(sn, i, j), i, j + 1)

RECURSIVE HeadToHeadInner(_, _, _)
HeadToHeadInner(sn, i, j) ==
    IF j > Len(sn) THEN sn ELSE HeadToHeadInner(HeadToHeadPair(sn, i, j), i, j + 1)

RECURSIVE HeadToHeadOuter(_, _)
HeadToHeadOuter(sn, i) ==
    IF i > Len(sn) - 1 THEN sn
    ELSE HeadToHeadOuter(IF Alive(sn[i]) THEN HeadToHeadInner(sn, i, i + 1) ELSE sn,
                         i + 1)

HeadToHead(g) == GameOf(HeadToHeadOuter(g.snakes, 1), g.grid)

\* Clear died snakes (game.rs:255-268)
RECURSIVE ClearBody(_, _, _)
ClearBody(gr, body, k) ==
    IF k > Len(body) THEN gr ELSE ClearBody(SetOwned(gr, body[k], FALSE), body, k + 1)

\* the head cell of a living snake is written anew, its hazard flag dropped
RECURSIVE ClearDiedFromNewCell(_, _)
ClearDiedFromNewCell(g, i) ==
    IF i > Len(g.snakes) THEN g
    ELSE LET s == g.snakes[i] IN
         IF Alive(s) THEN
             ClearDiedFromNewCell(
                 GameOf(g.snakes,
                        [g.grid EXCEPT ![SnakeHead(s)] = CellNew(FALSE, TRUE, FALSE)]),
                 i + 1)
         ELSE IF s.body # <<>> THEN
             ClearDiedFromNewCell(GameOf([g.snakes EXCEPT ![i].body = <<>>],
                                         ClearBody(g.grid, s.body, 1)),
                                  i + 1)
         ELSE ClearDiedFromNewCell(g, i + 1)

\* the cells of a dead snake are released but its body is kept
RECURSIVE ClearDiedFromKeepsBody(_, _)
ClearDiedFromKeepsBody(g, i) ==
    IF i > Len(g.snakes) THEN g
    ELSE LET s == g.snakes[i] IN
         IF Alive(s) THEN
             ClearDiedFromKeepsBody(
                 GameOf(g.snakes, SetFood(SetOwned(g.grid, SnakeHead(s), TRUE),
                                          SnakeHead(s), FALSE)),
                 i + 1)
         ELSE ClearDiedFromKeepsBody(GameOf(g.snakes, ClearBody(g.grid, s.body, 1)),
                                     i + 1)

RECURSIVE ClearDiedFrom(_, _)
ClearDiedFrom(g, i) ==
    IF i > Len(g.snakes) THEN g
    ELSE LET s == g.snakes[i] IN
         IF Alive(s) THEN
             ClearDiedFrom(GameOf(g.snakes,
                                  SetFood(SetOwned(g.grid, SnakeHead(s), TRUE),
                                          SnakeHead(s), FALSE)),
                           i + 1)
         ELSE IF s.body # <<>> THEN
             ClearDiedFrom(GameOf([g.snakes EXCEPT ![i].body = <<>>],
                                  ClearBody(g.grid, s.body, 1)),
                           i + 1)
         ELSE ClearDiedFrom(g, i + 1)

ClearDied(g) == ClearDiedFrom(g, 1)

\* Game::step
StepGame(g, moves) == ClearDied(HeadToHead(MoveHeads(PopTail(g), moves)))

(***************************************************************************)
(* Search results (search/mod.rs, util.rs) as the driver sees them.        *)
(***************************************************************************)
WIN == 10000
DRAW == 0
LOSS == -10000

FAST_TIMEOUT == 150
MAX_DEPTH == 16

NoDir == 4

\* util::argmax over a four-element array: index of the largest element,
\* the last one among equals (Iterator::max_by); NoDir for an empty array.
RECURSIVE ArgmaxFrom(_, _, _)
ArgmaxFrom(arr, i, best) ==
    IF i > 3 THEN best
    ELSE ArgmaxFrom(arr, i + 1, IF best = NoDir \/ arr[i] >= arr[best] THEN i ELSE best)

Argmax(arr) == ArgmaxFrom(arr, 0, NoDir)

\* the result array starts from the heuristic's scores, not from LOSS
ScoresOfAllMoves(h, g, d) == IF d < h.from THEN h.first ELSE h.later

\* The four scores a depth-d search of game g returns under heuristic h:
\* LOSS for every direction that is no valid move of snake 0
\* (minimax.rs:38-43, 136-142), the heuristic's scores for the others.
Scores(h, g, d) ==
    LET arr == IF d < h.from THEN h.first ELSE h.later
    IN [x \in 0 .. 3 |-> IF MoveIsValid(g, 0, x) THEN arr[x] ELSE LOSS]

\* the fallback is Up whatever the valid moves are
FallbackAlwaysUp(g) == Up

\* maxn.rs:41 and 57: game.valid_moves(0).next().unwrap_or(Direction::Up)
Fallback(g) ==
    LET vm == ValidMoves(g, 0) IN IF vm # <<>> THEN vm[1] ELSE Up

\* a best score equal to LOSS is returned as well
StepFastAcceptsLoss(h, g) ==
    LET result == Scores(h, g, 1)
        dir == Argmax(result)
    IN IF dir # NoDir /\ result[dir] >= LOSS THEN dir ELSE Fallback(g)

\* maxn.rs:44-58
StepFast(h, g) ==
    LET result == Scores(h, g, 1)
        dir == Argmax(result)
    IN IF dir # NoDir /\ result[dir] > LOSS THEN dir ELSE Fallback(g)

\* the loop over the depths has no upper end
RangeNeverEnds(d) == FALSE

\* 'for depth in 1..MAX_DEPTH' (maxn.rs:66): depth d is the last of the range
RangeEnds(d) == d + 1 >= MAX_DEPTH

\* the Sender outlives the dropped future
DropFutureKeepsSender(n) == n

\* Dropping the iterative_tree_search future drops the Sender it owns.
DropFuture(n) == 0

\* the drain loop keeps the first direction it received
ReceivedKeepsFirst(old, dir) == IF old = NoDir THEN dir ELSE old

\* What the drain loop keeps of a received direction (maxn.rs:31-34).
Received(old, dir) == dir

(***************************************************************************)
(* FixedVec (util.rs:52-88): N slots and the number of slots in use.  A    *)
(* slot that was never written holds Uninit; pop leaves the slot as it is. *)
(***************************************************************************)
Uninit == -1
None == -2

FixedVecNew(N) == [data |-> [i \in 1 .. N |-> Uninit], len |-> 0]

FixedVecCapacity(v) == Len(v.data)

\* a push on a full vector overwrites the last slot
FixedVecPushOverwrites(v, x) ==
    IF v.len < FixedVecCapacity(v)
    THEN [vec |-> [data |-> [v.data EXCEPT ![v.len + 1] = x], len |-> v.len + 1],
          ret |-> TRUE]
    ELSE [vec |-> [v EXCEPT !.data[v.len] = x], ret |-> FALSE]

\* FixedVec::push: the vector after the call and the value returned
FixedVecPush(v, x) ==
    IF v.len < FixedVecCapacity(v)
    THEN [vec |-> [data |-> [v.data EXCEPT ![v.len + 1] = x], len |-> v.len + 1],
          ret |-> TRUE]
    ELSE [vec |-> v, ret |-> FALSE]

\* FixedVec::pop: the vector after the call and the value returned
FixedVecPop(v) ==
    IF v.len > 0
    THEN [vec |-> [v EXCEPT !.len = v.len - 1], ret |-> v.data[v.len]]
    ELSE [vec |-> v, ret |-> None]

\* Deref: the slots in use as a slice
FixedVecDeref(v) == SubSeq(v.data, 1, v.len)

(***************************************************************************)
(* FloodFill (floodfill.rs): tiles, frontier elements and the claim rule.  *)
(***************************************************************************)
FFree == [tag |-> "Free"]
FOccupied(id, tail_dist) == [tag |-> "Occupied", id |-> id, tail_dist |-> tail_dist]
FOwned(id, health, len, distance) ==
    [tag |-> "Owned", id |-> id, health |-> health, len |-> len, distance |-> distance]

SnakePosNew(p, id, distance, food, len, health) ==
    [p |-> p, id |-> id, distance |-> distance, food |-> food, len |-> len,
     health |-> health]

\* on equal lengths the frontier element with the smaller id takes the cell
OwnsSmallerIdWins(cell, s_id, s_distance, food, s_len, s_health) ==
    CASE cell.tag = "Free" -> TRUE
      [] cell.tag = "Occupied" ->
            IF cell.id = s_id THEN cell.tail_dist + food <= s_distance
            ELSE cell.tail_dist <= s_distance
      [] OTHER ->
            /\ cell.distance = s_distance
            /\ IF cell.id # s_id
               THEN cell.len < s_len \/ (cell.len = s_len /\ s_id < cell.id)
               ELSE cell.health < s_health

\* a segment of the element's own snake is never followed
OwnsOwnBodyBlocks(cell, s_id, s_distance, food, s_len, s_health) ==
    CASE cell.tag = "Free" -> TRUE
      [] cell.tag = "Occupied" -> cell.id # s_id /\ cell.tail_dist <= s_distance
      [] OTHER ->
            /\ cell.distance = s_distance
            /\ IF cell.id # s_id
               THEN cell.len < s_len \/ (cell.len = s_len /\ cell.id < s_id)
               ELSE cell.health < s_health

\* the food eaten on the way is not counted for the own tail
OwnsIgnoresFood(cell, s_id, s_distance, food, s_len, s_health) ==
    CASE cell.tag = "Free" -> TRUE
      [] cell.tag = "Occupied" -> cell.tail_dist <= s_distance
      [] OTHER ->
            /\ cell.distance = s_distance
            /\ IF cell.id # s_id
               THEN cell.len < s_len \/ (cell.len = s_len /\ cell.id < s_id)
               ELSE cell.health < s_health

\* FloodFill::flood::owns (floodfill.rs:161-192)
Owns(cell, s_id, s_distance, food, s_len, s_health) ==
    CASE cell.tag = "Free" -> TRUE
      [] cell.tag = "Occupied" ->
            IF cell.id = s_id THEN cell.tail_dist + food <= s_distance
            ELSE cell.tail_dist <= s_distance
      [] OTHER ->
            /\ cell.distance = s_distance
            /\ IF cell.id # s_id
               THEN cell.len < s_len \/ (cell.len = s_len /\ cell.id < s_id)
               ELSE cell.health < s_health

\* the health wraps around instead of stopping at 0
CarriedHealthWrapping(gcell, health) ==
    IF gcell.food THEN 100
    ELSE WrappingSub(health, IF gcell.hazard THEN HAZARD_DAMAGE ELSE 1)

\* the health carried into a cell of the grid (floodfill.rs:219-223)
CarriedHealth(gcell, health) ==
    IF gcell.food THEN 100
    ELSE SaturatingSub(health, IF gcell.hazard THEN HAZARD_DAMAGE ELSE 1)

\* One neighbour of a frontier element (floodfill.rs:214-241).  st holds the
\* tiles, the queue, the food distances and the cells claimed for e so far.
FloodNeighbour(st, grid, e, p) ==
    LET g_cell == grid[p]
        cell == st.cells[p]
        is_food == g_cell.food
        health == CarriedHealth(g_cell, e.health)
        fd == IF is_food /\ e.id = 0 /\ cell = FFree
              THEN FixedVecPush(st.food_distances, e.distance).vec
              ELSE st.food_distances
        food == e.food + (IF is_food THEN 1 ELSE 0)
        len == e.len + (IF is_food THEN 1 ELSE 0)
    IN IF health > 0 /\ Owns(cell, e.id, e.distance, food, len, health)
       THEN [cells |-> [st.cells EXCEPT ![p] = FOwned(e.id, health, len, e.distance)],
             queue |-> Append(st.queue,
                              SnakePosNew(p, e.id, e.distance + 1, food, len, health)),
             food_distances |-> fd,
             claimed |-> st.claimed \cup {p}]
       ELSE [st EXCEPT !.food_distances = fd]

\* an element that claimed no cell goes back to the end of the queue
RECURSIVE FloodNeighboursRequeue(_, _, _, _)
FloodNeighboursRequeue(st, grid, e, k) ==
    IF k > 4
    THEN (IF st.claimed = {} THEN [st EXCEPT !.queue = Append(@, e)] ELSE st)
    ELSE LET p == Apply(e.p, Directions[k])
         IN FloodNeighboursRequeue(IF Has(p) THEN FloodNeighbour(st, grid, e, p) ELSE st,
                                   grid, e, k + 1)

\* The neighbours of e in the order of Direction::iter, those outside the
\* grid left out (floodfill.rs:210-213).
RECURSIVE FloodNeighbours(_, _, _, _)
FloodNeighbours(st, grid, e, k) ==
    IF k > 4 THEN st
    ELSE LET p == Apply(e.p, Directions[k])
         IN FloodNeighbours(IF Has(p) THEN FloodNeighbour(st, grid, e, p) ELSE st,
                            grid, e, k + 1)

\* The tiles after flood_snakes laid the bodies out (floodfill.rs:251-261):
\* tail_dist is the index in the body counted from 0 at the tail, and a later
\* write replaces an earlier one on the same cell.
Prepare(snakes) ==
    [c \in Cells |->
        LET on == {i \in 1 .. Len(snakes) : \E k \in 1 .. Len(snakes[i].body) :
                                                snakes[i].body[k] = c}
        IN IF on = {} THEN FFree
           ELSE LET i == CHOOSE i \in on : \A j \in on : j <= i
                    ks == {k \in 1 .. Len(snakes[i].body) : snakes[i].body[k] = c}
                    k == CHOOSE k \in ks : \A l \in ks : l <= k
                IN FOccupied(i - 1, k - 1)]

\* The heads flood_snakes starts from (floodfill.rs:264-271): the living
\* snakes in the order of their ids.
RECURSIVE FloodHeads(_, _)
FloodHeads(snakes, i) ==
    IF i > Len(snakes) THEN <<>>
    ELSE (IF Alive(snakes[i])
          THEN <<SnakePosNew(SnakeHead(snakes[i]), i - 1, 0, 0,
                             Len(snakes[i].body), snakes[i].health)>>
          ELSE <<>>) \o FloodHeads(snakes, i + 1)

(***************************************************************************)
(* Tree search (search/mod.rs, search/minimax.rs, search/alphabeta.rs).   *)
(* A heuristic is a record of integer weights; Eval stands for the       *)
(* Heuristic::eval callback, a function of the game alone.  An action     *)
(* array holds four directions, actions[ply + 1] being snake ply's.       *)
(***************************************************************************)
Eval(h, g) ==
    LET s == g.snakes[1] IN
    IF Alive(s)
    THEN h.base + h.health * s.health + h.len * Len(s.body)
         + h.x * SnakeHead(s)[1] + h.y * SnakeHead(s)[2]
    ELSE h.dead

AllUp == <<Up, Up, Up, Up>>

RECURSIVE MaxNRec(_, _, _, _, _)
RECURSIVE MaxLoop(_, _, _, _, _, _)
RECURSIVE MinLoop(_, _, _, _, _, _, _, _)
RECURSIVE MinLoopStopsAtDraw(_, _, _, _, _, _, _, _)

\* a win counts as a win only on the last ply of the search
MaxNSimulateWinAtLeaf(g, depth, actions, h) ==
    LET g2 == StepGame(g, actions)
        o == Outcome(g2)
    IN CASE o.tag = "Winner" -> IF o.id = 0
                                THEN (IF depth <= 1 THEN WIN ELSE 0) + Eval(h, g2)
                                ELSE LOSS
         [] o.tag = "Match"  -> DRAW
         [] OTHER            -> IF depth <= 1 THEN Eval(h, g2)
                                ELSE MaxNRec(g2, depth - 1, 0, AllUp, h)

\* max_n_rec, ply == game.snakes.len(): step the game and value the result
MaxNSimulate(g, depth, actions, h) ==
    LET g2 == StepGame(g, actions)
        o == Outcome(g2)
    IN CASE o.tag = "Winner" -> IF o.id = 0 THEN WIN + Eval(h, g2) ELSE LOSS
         [] o.tag = "Match"  -> DRAW
         [] OTHER            -> IF depth <= 1 THEN Eval(h, g2)
                                ELSE MaxNRec(g2, depth - 1, 0, AllUp, h)

\* max_n_rec, ply == game.snakes.len(): whether the branch itself calls
\* heuristic.eval on the stepped game
MaxNEvaluates(g, depth, actions) ==
    LET o == Outcome(StepGame(g, actions))
    IN CASE o.tag = "Winner" -> o.id = 0
         [] o.tag = "Match"  -> FALSE
         [] OTHER            -> depth <= 1

\* max_n_rec, ply == 0: the loop over Direction::all() from direction d on
MaxLoop(g, depth, actions, h, d, max) ==
    IF d >= 4 THEN max
    ELSE IF ~MoveIsValid(g, 0, d) THEN MaxLoop(g, depth, actions, h, d + 1, max)
    ELSE LET val == MaxNRec(g, depth, 1, [actions EXCEPT ![1] = d], h)
         IN MaxLoop(g, depth, actions, h, d + 1, IF val > max THEN val ELSE max)

\* a min node stops as soon as it reaches DRAW
MinLoopStopsAtDraw(g, depth, ply, actions, h, d, min, moved) ==
    IF d >= 4 THEN
        IF moved THEN min ELSE MaxNRec(g, depth, ply + 1, actions, h)
    ELSE IF ~MoveIsValid(g, ply, d)
    THEN MinLoopStopsAtDraw(g, depth, ply, actions, h, d + 1, min, moved)
    ELSE LET val == MaxNRec(g, depth, ply + 1, [actions EXCEPT ![ply + 1] = d], h)
         IN IF val < min
            THEN IF val <= DRAW THEN val
                 ELSE MinLoopStopsAtDraw(g, depth, ply, actions, h, d + 1, val, TRUE)
            ELSE MinLoopStopsAtDraw(g, depth, ply, actions, h, d + 1, min, moved)

\* max_n_rec, another snake's ply: the loop over Direction::all() from
\* direction d on, then the pass-through of a snake that did not move
MinLoop(g, depth, ply, actions, h, d, min, moved) ==
    IF d >= 4 THEN
        IF moved THEN min ELSE MaxNRec(g, depth, ply + 1, actions, h)
    ELSE IF ~MoveIsValid(g, ply, d)
    THEN MinLoop(g, depth, ply, actions, h, d + 1, min, moved)
    ELSE LET val == MaxNRec(g, depth, ply + 1, [actions EXCEPT ![ply + 1] = d], h)
         IN IF val < min
            THEN IF val <= LOSS THEN val
                 ELSE MinLoop(g, depth, ply, actions, h, d + 1, val, TRUE)
            ELSE MinLoop(g, depth, ply, actions, h, d + 1, min, moved)

MaxNRec(g, depth, ply, actions, h) ==
    IF ply = Len(g.snakes) THEN MaxNSimulate(g, depth, actions, h)
    ELSE IF ply = 0 THEN MaxLoop(g, depth, actions, h, 0, LOSS)
    ELSE MinLoop(g, depth, ply, actions, h, 0, 2 * WIN, FALSE)

\* max_n
MaxN(g, depth, h) ==
    [d \in 0 .. 3 |->
        IF MoveIsValid(g, 0, d)
        THEN MaxNRec(g, depth, 1, [AllUp EXCEPT ![1] = d], h)
        ELSE LOSS]

RECURSIVE AlphaBetaRec(_, _, _, _, _, _, _)
RECURSIVE AlphaBetaMaxLoop(_, _, _, _, _, _, _, _)
RECURSIVE AlphaBetaMaxLoopTakesLast(_, _, _, _, _, _, _, _)
RECURSIVE AlphaBetaMinLoop(_, _, _, _, _, _, _, _, _)

\* alphabeta_rec, ply == game.snakes.len(): step the game and value the result
AlphaBetaSimulate(g, actions, depth, alpha, beta, h) ==
    LET g2 == StepGame(g, actions)
        o == Outcome(g2)
    IN CASE o.tag = "Winner" -> [dir |-> Up, val |-> IF o.id = 0 THEN WIN ELSE LOSS]
         [] o.tag = "Match"  -> [dir |-> Up, val |-> DRAW]
         [] OTHER            -> IF depth = 0 THEN [dir |-> Up, val |-> Eval(h, g2)]
                                ELSE AlphaBetaRec(g2, AllUp, depth - 1, 0, alpha, beta, h)

\* alphabeta_rec, ply == game.snakes.len(): whether the branch itself calls
\* heuristic.eval on the stepped game
AlphaBetaEvaluates(g, actions, depth) ==
    Outcome(StepGame(g, actions)).tag = "None" /\ depth = 0

\* the direction is replaced by every child that is at least as good
AlphaBetaMaxLoopTakesLast(g, actions, depth, alpha, beta, h, d, value) ==
    IF d >= 4 THEN value
    ELSE LET newval == AlphaBetaRec(g, [actions EXCEPT ![1] = d], depth, 1, alpha, beta, h)
             value2 == IF newval.val >= value.val
                       THEN [dir |-> d, val |-> newval.val] ELSE value
             alpha2 == IF newval.val > alpha THEN newval.val ELSE alpha
         IN IF alpha2 >= beta THEN value2
            ELSE AlphaBetaMaxLoopTakesLast(g, actions, depth, alpha2, beta, h, d + 1, value2)

\* alphabeta_rec, ply == 0: the loop over Direction::iter() from direction d on
AlphaBetaMaxLoop(g, actions, depth, alpha, beta, h, d, value) ==
    IF d >= 4 THEN value
    ELSE LET newval == AlphaBetaRec(g, [actions EXCEPT ![1] = d], depth, 1, alpha, beta, h)
             value2 == IF newval.val > value.val
                       THEN [dir |-> d, val |-> newval.val] ELSE value
             alpha2 == IF newval.val > alpha THEN newval.val ELSE alpha
         IN IF alpha2 >= beta THEN value2
            ELSE AlphaBetaMaxLoop(g, actions, depth, alpha2, beta, h, d + 1, value2)

\* alphabeta_rec, another snake's ply
AlphaBetaMinLoop(g, actions, depth, ply, alpha, beta, h, d, value) ==
    IF d >= 4 THEN value
    ELSE LET newval == AlphaBetaRec(g, [actions EXCEPT ![ply + 1] = d], depth, ply + 1,
                                    alpha, beta, h)
             value2 == IF newval.val < value.val
                       THEN [dir |-> d, val |-> newval.val] ELSE value
             beta2 == IF newval.val < beta THEN newval.val ELSE beta
         IN IF alpha >= beta2 THEN value2
            ELSE AlphaBetaMinLoop(g, actions, depth, ply, alpha, beta2, h, d + 1, value2)

AlphaBetaRec(g, actions, depth, ply, alpha, beta, h) ==
    IF ply = Len(g.snakes) THEN AlphaBetaSimulate(g, actions, depth, alpha, beta, h)
    ELSE IF ply = 0
    THEN AlphaBetaMaxLoop(g, actions, depth, alpha, beta, h, 0, [dir |-> Up, val |-> LOSS])
    ELSE AlphaBetaMinLoop(g, actions, depth, ply, alpha, beta, h, 0,
                          [dir |-> Up, val |-> WIN])

\* alphabeta
AlphaBeta(g, depth, h) == AlphaBetaRec(g, AllUp, depth, 0, LOSS, WIN, h)

(***************************************************************************)
(* The parallel search (minimax.rs: async_max_n, async_max_n_rec).  A      *)
(* task is one spawned future: the call async_max_n_rec(g, depth, 1,       *)
(* actions) it wraps and how far that call has come.  id names the task    *)
(* by the path that leads to it, parent is the id of the task whose code   *)
(* spawned it, <<>> for async_max_n itself; todo are the action arrays     *)
(* the nested min loops still have to simulate, in the order of the        *)
(* loops; min is the running minimum; max and pending are the running      *)
(* maximum and the number of unjoined tasks of the JoinSet the task is     *)
(* waiting on, sub being the game those tasks search.                      *)
(***************************************************************************)
RECURSIVE Combos(_, _, _)
RECURSIVE CombosOver(_, _, _, _, _)

\* async_max_n_rec, min plies from ply on: every action array the loops
\* build, a snake without valid move keeping the entry it has
Combos(g, actions, ply) ==
    IF ply >= Len(g.snakes) THEN <<actions>>
    ELSE IF ValidMoves(g, ply) = <<>> THEN Combos(g, actions, ply + 1)
    ELSE CombosOver(g, actions, ply, ValidMoves(g, ply), 1)

CombosOver(g, actions, ply, vm, k) ==
    IF k > Len(vm) THEN <<>>
    ELSE Combos(g, [actions EXCEPT ![ply + 1] = vm[k]], ply + 1)
         \o CombosOver(g, actions, ply, vm, k + 1)

TaskNew(id, parent, g, depth, actions) ==
    [id |-> id, parent |-> parent, g |-> g, depth |-> depth, dir |-> actions[1],
     todo |-> Combos(g, actions, 1), min |-> 2 * WIN, max |-> LOSS,
     pending |-> 0, sub |-> g, state |-> "ready", value |-> 0]

\* the tasks a max node spawns: one per valid move of snake 0
Spawn(parent, path, g, depth) ==
    {TaskNew(path \o <<d>>, parent, g, depth, [AllUp EXCEPT ![1] = d]) :
        d \in {e \in DirSet : MoveIsValid(g, 0, e)}}

\* the min loops take a child's value: val < min, and the break at LOSS
Absorb(t, val) ==
    IF val < t.min
    THEN IF val <= LOSS THEN [t EXCEPT !.min = val, !.todo = <<>>]
         ELSE [t EXCEPT !.min = val, !.todo = Tail(t.todo)]
    ELSE [t EXCEPT !.todo = Tail(t.todo)]

\* A task runs until it returns or until it has to wait for the tasks of a
\* max node: the simulate branch of every action array in turn.
RECURSIVE RunTask(_, _)
RunTask(t, h) ==
    IF t.todo = <<>> THEN [t EXCEPT !.state = "done", !.value = t.min]
    ELSE LET g2 == StepGame(t.g, Head(t.todo))
         IN IF Outcome(g2).tag = "None" /\ t.depth > 1
            THEN [t EXCEPT !.state = "wait", !.sub = g2, !.max = LOSS,
                           !.pending = Cardinality(Spawn(t.id, t.id, g2, t.depth - 1))]
            ELSE RunTask(Absorb(t, MaxNSimulate(t.g, t.depth, Head(t.todo), h)), h)

(***************************************************************************)
(* Grid::a_star (snork_core/src/game/grid.rs).  This Grid holds one Cell   *)
(* per position - Free, Food or Occupied - and the hazard flags.  Costs    *)
(* are f64 in the code; here they are counted in hundredths, so that a     *)
(* move costs COST_SCALE and the heap key (estimated_cost * 10.0) as usize *)
(* is the cost in hundredths divided by 10, rounded down.                  *)
(***************************************************************************)
COST_SCALE == 100

Manhattan(p) ==
    (IF p[1] < 0 THEN -p[1] ELSE p[1]) + (IF p[2] < 0 THEN -p[2] ELSE p[2])

CoreCells(w, h) == {<<x, y>> : x \in 0..(w - 1), y \in 0..(h - 1)}

\* a Grid of the given size after add_snake over the occupied cells and
\* add_hazards
CoreGrid(w, h, occupied, hazards) ==
    [width |-> w, height |-> h,
     cells |-> [c \in CoreCells(w, h) |-> IF c \in occupied THEN "Occupied" ELSE "Free"],
     hazards |-> hazards \cap CoreCells(w, h)]

\* Grid::has
CoreHas(grid, p) == Within(p, grid.width, grid.height)

\* Grid::is_hazardous
IsHazardous(grid, p) == grid.hazards # {} /\ CoreHas(grid, p) /\ p \in grid.hazards

NoPos == <<-1, -1>>

\* the HashMap data without an entry
NoData == [c \in {} |-> [from |-> NoPos, cost |-> 0]]

\* a_star: data as the call leaves it before the loop
AStarData(start) == [c \in {start} |-> [from |-> NoPos, cost |-> 0]]

\* a neighbour is taken whatever its cell holds
AStarNeighborThroughSnakes(grid, start, costs, front, st, d) ==
    LET neighbor == Apply(front, d)
        neighbor_cost ==
            st.data[front].cost + COST_SCALE
            + (IF IsHazardous(grid, neighbor) THEN HAZARD_DAMAGE * COST_SCALE ELSE 0)
            + (IF front = start THEN costs[d + 1] ELSE 0)
    IN IF CoreHas(grid, neighbor)
          /\ (neighbor \notin DOMAIN st.data \/ neighbor_cost < st.data[neighbor].cost)
       THEN [data |-> [q \in DOMAIN st.data \cup {neighbor} |->
                          IF q = neighbor THEN [from |-> front, cost |-> neighbor_cost]
                          ELSE st.data[q]],
             queue |-> st.queue \cup
                 {<<(neighbor_cost
                     + Manhattan(<<neighbor[1] - start[1], neighbor[2] - start[2]>>)
                       * COST_SCALE) \div 10,
                    neighbor>>}]
       ELSE st

\* a_star, loop body for one direction: st is [data, queue]
AStarNeighbor(grid, start, costs, front, st, d) ==
    LET neighbor == Apply(front, d)
        neighbor_cost ==
            st.data[front].cost + COST_SCALE
            + (IF IsHazardous(grid, neighbor) THEN HAZARD_DAMAGE * COST_SCALE ELSE 0)
            + (IF front = start THEN costs[d + 1] ELSE 0)
    IN IF CoreHas(grid, neighbor) /\ grid.cells[neighbor] # "Occupied"
          /\ (neighbor \notin DOMAIN st.data \/ neighbor_cost < st.data[neighbor].cost)
       THEN [data |-> [q \in DOMAIN st.data \cup {neighbor} |->
                          IF q = neighbor THEN [from |-> front, cost |-> neighbor_cost]
                          ELSE st.data[q]],
             queue |-> st.queue \cup
                 {<<(neighbor_cost
                     + Manhattan(<<neighbor[1] - start[1], neighbor[2] - start[2]>>)
                       * COST_SCALE) \div 10,
                    neighbor>>}]
       ELSE st

RECURSIVE AStarNeighbors(_, _, _, _, _, _)
AStarNeighbors(grid, start, costs, front, st, k) ==
    IF k > Len(Directions) THEN st
    ELSE AStarNeighbors(grid, start, costs, front,
                        AStarNeighbor(grid, start, costs, front, st, Directions[k]),
                        k + 1)

\* make_path
RECURSIVE MakePath(_, _)
MakePath(data, p) ==
    IF p[1] >= 0 THEN MakePath(data, data[p].from) \o <<p>> ELSE <<>>

(***************************************************************************)
(* Game::reset_from_request (game/game.rs).  A request holds you and the   *)
(* snakes of the board, each a Battlesnake with id, health and body from   *)
(* the head to the tail.                                                   *)
(***************************************************************************)
Battlesnake(id, health, body) == [id |-> id, health |-> health, body |-> body]

RECURSIVE Rev(_)
Rev(seq) == IF seq = <<>> THEN <<>> ELSE Rev(Tail(seq)) \o <<Head(seq)>>

\* Snake::from
SnakeFrom(snake, id) == SnakeNew(id, Rev(snake.body), snake.health)

\* the distance of the head alone
HeadDist(snake, head) ==
    IF snake.body = <<>> THEN 0
    ELSE Manhattan(<<SnakeHead(snake)[1] - head[1], SnakeHead(snake)[2] - head[2]>>)

\* reset_from_request: body_dist
BodyDist(snake, head) ==
    IF snake.body = <<>> THEN 0
    ELSE LET dists == {Manhattan(<<snake.body[i][1] - head[1], snake.body[i][2] - head[2]>>) :
                          i \in 1..Len(snake.body)}
         IN CHOOSE m \in dists : \A o \in dists : m <= o

\* .filter(|s| s.id != request.you.id).enumerate().map(|(i, s)| Snake::from(s, i + 1))
RequestOthers(request) ==
    LET others == SelectSeq(request.board.snakes, LAMBDA s : s.id # request.you.id)
    IN [i \in 1..Len(others) |-> SnakeFrom(others[i], i)]

\* the sequences that n pops from the heap can yield: OrdPair compares the
\* distance only, a pop takes any entry of the smallest distance
RECURSIVE PopClosest(_, _)
PopClosest(queue, n) ==
    IF n = 0 \/ queue = {} THEN {<<>>}
    ELSE UNION {{<<e[2]>> \o r : r \in PopClosest(queue \ {e}, n - 1)} :
                   e \in {f \in queue : \A o \in queue : f[1] <= o[1]}}

\* the snakes reset_from_request hands to reset
RequestSnakes(request) ==
    LET you == SnakeFrom(request.you, 0)
        others == RequestOthers(request)
    IN IF Len(request.board.snakes) > 4
       THEN LET queue == {<<BodyDist(others[i], SnakeHead(you)), others[i]>> :
                             i \in 1..Len(others)}
            IN {<<you>> \o [i \in 1..Len(r) |-> [r[i] EXCEPT !.id = i]] :
                   r \in PopClosest(queue, 3)}
       ELSE {<<you>> \o others}

(***************************************************************************)
(* MobilityAgent (snork_core/src/agents/mobility.rs).  A food of the       *)
(* request is held by what a_star and the flood fill say of it: whether a  *)
(* path was found, the number of its cells, the direction of its first     *)
(* move, and whether the cell of the food is owned by you.                 *)
(***************************************************************************)
HEALTH_THRESHOLD == 35
MIN_LEN == 10

FoodPath(found, len, dir, mine) == [found |-> found, len |-> len, dir |-> dir, mine |-> mine]

\* find_food: the heap food_dirs after the loop over the food, as pairs of
\* costs and direction
FoodDirs(food) ==
    {<<food[i].len + (IF food[i].mine THEN 0 ELSE 5), food[i].dir>> :
        i \in {j \in 1 .. Len(food) : food[j].found /\ food[j].len >= 2}}

\* the direction of least costs is taken whatever the space after the move
FindFoodAnySpace(food_dirs, space_after_move, len) ==
    IF food_dirs = {} THEN {NoDir}
    ELSE {e[2] : e \in {f \in food_dirs : \A o \in food_dirs : f[1] <= o[1]}}

\* find_food: the directions the loop over the pops can return, NoDir for
\* None; a pop takes any entry of the least costs
RECURSIVE FindFoodPop(_, _, _)
FindFoodPop(food_dirs, space_after_move, len) ==
    IF food_dirs = {} THEN {NoDir}
    ELSE UNION {IF space_after_move[e[2]] >= len - 1
                THEN {e[2]}
                ELSE FindFoodPop(food_dirs \ {e}, space_after_move, len) :
                   e \in {f \in food_dirs : \A o \in food_dirs : f[1] <= o[1]}}

\* MobilityAgent::step from the results of max_n, a_star and the flood fill
\* on: the moves it can return
MobilityMoves(food, space_after_move, len, health, valid_moves) ==
    LET found == IF len < MIN_LEN \/ health < HEALTH_THRESHOLD
                 THEN FindFoodPop(FoodDirs(food), space_after_move, len)
                 ELSE {NoDir}
        dir == Argmax(space_after_move)
    IN (found \ {NoDir}) \cup
       (IF NoDir \notin found THEN {}
        ELSE IF dir # NoDir /\ space_after_move[dir] > 0 THEN {dir}
        ELSE IF valid_moves # {} THEN valid_moves
        ELSE {Up})

(***************************************************************************)
(* State.  game is the Game; prev and moves record the game and the move   *)
(* vector of the latest step() call, steps counts the calls.               *)
(***************************************************************************)
VARIABLES game, prev, moves, steps

\* The max-n driver (agents/maxn.rs): pc is the position of step(), depth the
\* depth being searched, chan the result channel, senders the number of live
\* Sender handles, result the local of the drain loop, answer the direction
\* returned.  heur and timeout are step()'s inputs.  published, searched and
\* interrupted record what the search did: the (depth, direction) pairs sent,
\* the depths whose search completed, and the depth the deadline cut short.
VARIABLES pc, depth, chan, senders, result, answer, heur, timeout,
          published, searched, interrupted

\* FloodFill (floodfill.rs): fpc is the position of flood_snakes, fcells the
\* tiles, fqueue the frontier queue and ffood the food distances.  felem,
\* fbefore and fclaimed record the latest frontier element popped, the tiles
\* before it was expanded and the cells it claimed.
VARIABLES fpc, fcells, fqueue, ffood, felem, fbefore, fclaimed

\* The tree search: spc is "idle" before a search, "done" after max_n,
\* "abdone" after alphabeta, and otherwise names the search whose simulate
\* branch ran last; sdepth and sheur are the depth and the heuristic, sscores
\* the array max_n returned, sdir the direction alphabeta returned, svalue
\* the value alphabeta returned or the value of the latest simulate branch,
\* sevaluated whether that branch called the heuristic itself.
VARIABLES spc, sdepth, sheur, sscores, sdir, svalue, sevaluated

\* The parallel search: the tasks of all JoinSets, spawned and not yet joined.
VARIABLES tasks

\* Grid::a_star: apc is the position of the call, agrid, astart, atarget and
\* acosts its arguments, aqueue the heap as the set of its (key, position)
\* pairs, adata the HashMap data, apath the path returned.
VARIABLES apc, agrid, astart, atarget, acosts, aqueue, adata, apath

\* Game::reset_from_request: the request, and rpc the position of the call.
VARIABLES request, rpc

\* MobilityAgent::step: mpc is the position of the call; mspace the result
\* of max_n, mfood the foods of the request, mlen and mhealth the length and
\* the health of you, mvalid the valid moves of you, mmove the move returned.
VARIABLES mpc, mspace, mfood, mlen, mhealth, mvalid, mmove

\* A FixedVec under a sequence of calls: vec is the vector, vbefore the
\* vector before the latest call, vret what the latest call returned, and
\* vhist the calls made so far.
VARIABLES vec, vbefore, vret, vhist

gameVars == <<game, prev, moves, steps>>
floodVars == <<fpc, fcells, fqueue, ffood, felem, fbefore, fclaimed>>
driverVars == <<pc, depth, chan, senders, result, answer, heur, timeout,
                published, searched, interrupted>>
searchVars == <<spc, sdepth, sheur, sscores, sdir, svalue, sevaluated>>
asyncVars == <<tasks>>
astarVars == <<apc, agrid, astart, atarget, acosts, aqueue, adata, apath>>
requestVars == <<request, rpc>>
mobilityVars == <<mpc, mspace, mfood, mlen, mhealth, mvalid, mmove>>
fixedVars == <<vec, vbefore, vret, vhist>>
vars == <<gameVars, driverVars, floodVars, searchVars, asyncVars, astarVars, requestVars,
          mobilityVars, fixedVars>>

\* Bodies a snake can have when a game is loaded: tail to head, consecutive
\* segments on the same or on neighbouring cells, stacked only at the tail.
Adjacent(p, q) == \E d \in DirSet : Apply(p, d) = q

InitBodies ==
    {<<p, p>> : p \in Cells} \cup {<<p, p, p>> : p \in Cells}
    \cup {b \in Cells \X Cells : Adjacent(b[1], b[2])}
    \cup {b \in Cells \X Cells \X Cells :
             /\ b[1] = b[2] \/ Adjacent(b[1], b[2])
             /\ Adjacent(b[2], b[3])
             /\ b[3] # b[1]}

InitHealth == {2, 100}

BodyCells(body) == {body[k] : k \in 1 .. Len(body)}

\* The bodies of InitBodies that lie in row y of the lower-left 3 x 3 block
\* with their head in column x.
RowBodies(x, y) ==
    {b \in InitBodies : /\ b[Len(b)] = <<x, y>>
                        /\ \A c \in BodyCells(b) : c[2] = y /\ c[1] <= 2}

\* A loaded game with one snake: any body.
InitOne == {<<b>> : b \in InitBodies}

\* A loaded game with two snakes: snake 0 in the bottom row with its head in
\* column 0 or 1, snake 1 two rows above it with its head in column 1.
InitTwo ==
    {<<b0, b1>> : b0 \in RowBodies(0, 0) \cup RowBodies(1, 0),
                  b1 \in RowBodies(1, 2)}

\* A loaded game with three snakes, their heads around the cell <<1, 1>>.
InitThree ==
    {<<b0, b1, b2>> : b0 \in {b \in RowBodies(1, 0) : b[1] = <<0, 0>>},
                      b1 \in {b \in RowBodies(0, 1) : b[1] = <<0, 1>>},
                      b2 \in {b \in RowBodies(1, 2) : b[1] = <<2, 2>>}}

InitLayouts == InitOne \cup InitTwo \cup InitThree

\* The healths of n loaded snakes: the first two are low or full, a third
\* one is full.
InitHealths(n) == {h \in [1 .. n -> InitHealth] : \A i \in 3 .. n : h[i] = 100}

InitSnakeLists ==
    UNION {{[i \in 1 .. Len(bodies) |-> SnakeNew(i - 1, bodies[i], healths[i])] :
               healths \in InitHealths(Len(bodies))} : bodies \in InitLayouts}

\* Food and hazards of a loaded game: nothing, or the cell <<1, 1>>.
InitFood == {{}, {<<1, 1>>}}
InitHazards == {{}, {<<1, 1>>}}

NoMoves == <<>>

NoHeur == [first |-> <<>>, later |-> <<>>, from |-> 0]

NoElem == SnakePosNew(<<0, 0>>, 0, 0, 0, 0, 0)

FloodIdle ==
    /\ fpc = "idle"
    /\ fcells = [c \in Cells |-> FFree]
    /\ fqueue = <<>>
    /\ ffood = FixedVecNew(4)
    /\ felem = NoElem
    /\ fbefore = fcells
    /\ fclaimed = {}

NoWeights == [base |-> 0, health |-> 0, len |-> 0, x |-> 0, y |-> 0, dead |-> 0]

NoScores == [d \in 0 .. 3 |-> LOSS]

SearchIdle ==
    /\ spc = "idle"
    /\ sdepth = 0
    /\ sheur = NoWeights
    /\ sscores = NoScores
    /\ sdir = NoDir
    /\ svalue = 0
    /\ sevaluated = FALSE

AsyncIdle == tasks = {}

NoRequest ==
    [you |-> Battlesnake(0, 0, <<>>), board |-> [food |-> {}, hazards |-> {}, snakes |-> <<>>]]

RequestIdle ==
    /\ request = NoRequest
    /\ rpc = "idle"

FixedVecIdle ==
    /\ vec = FixedVecNew(1)
    /\ vbefore = vec
    /\ vret = [op |-> "new"]
    /\ vhist = <<>>

MobilityIdle ==
    /\ mpc = "idle"
    /\ mspace = [d \in 0 .. 3 |-> 0]
    /\ mfood = <<>>
    /\ mlen = 0
    /\ mhealth = 0
    /\ mvalid = {}
    /\ mmove = NoDir

AStarIdle ==
    /\ apc = "idle"
    /\ agrid = CoreGrid(0, 0, {}, {})
    /\ astart = NoPos
    /\ atarget = NoPos
    /\ acosts = <<0, 0, 0, 0>>
    /\ aqueue = {}
    /\ adata = NoData
    /\ apath = <<>>

DriverIdle ==
    /\ pc = "idle"
    /\ depth = 0
    /\ chan = <<>>
    /\ senders = 0
    /\ result = NoDir
    /\ answer = NoDir
    /\ heur = NoHeur
    /\ timeout = 0
    /\ published = <<>>
    /\ searched = <<>>
    /\ interrupted = 0

Init ==
    /\ DriverIdle
    /\ FloodIdle
    /\ SearchIdle
    /\ AsyncIdle
    /\ AStarIdle
    /\ RequestIdle
    /\ MobilityIdle
    /\ FixedVecIdle
    /\ \E sn \in InitSnakeLists :
       \E food \in InitFood :
       \E hz \in InitHazards :
          /\ \A i \in 1 .. Len(sn) : food \cap BodyCells(sn[i].body) = {}
          /\ game = Reset(sn, food, hz)
    /\ prev = game
    /\ moves = NoMoves
    /\ steps = 0

\* The move vectors step() is called with: one direction per snake; the
\* entry of a dead snake is never read and is Up as in the search's vectors.
MoveVectors(g) ==
    {m \in [1 .. Len(g.snakes) -> DirSet] :
        \A i \in 1 .. Len(g.snakes) : ~Alive(g.snakes[i]) => m[i] = Up}

Step ==
    /\ steps < MaxSteps
    /\ \E m \in MoveVectors(game) :
          /\ game' = StepGame(game, m)
          /\ moves' = m
    /\ prev' = game
    /\ steps' = steps + 1
    /\ UNCHANGED <<driverVars, floodVars, searchVars, asyncVars, astarVars, requestVars, mobilityVars, fixedVars>>

Next == Step

Spec == Init /\ [][Next]_vars

(***************************************************************************)
(* The max-n driver: agents/maxn.rs step, iterative_tree_search,           *)
(* tree_search.                                                            *)
(***************************************************************************)
\* The games the driver is run on: snake 0 with its head in the corner
\* <<0, 0>>, alone or below a second snake that blocks the way up.
DriverLayouts ==
    {<<b0>> : b0 \in RowBodies(0, 0)}
    \cup {<<b0, <<<<2, 1>>, <<1, 1>>, <<0, 1>>>>>> : b0 \in RowBodies(0, 0)}

DriverGames ==
    {Reset([i \in 1 .. Len(bodies) |-> SnakeNew(i - 1, bodies[i], 100)], {}, {}) :
        bodies \in DriverLayouts}

\* The heuristics the driver is run with, by the scores their searches give:
\* one array up to a depth, another from that depth on.
ScoreValues == {LOSS, DRAW, WIN}
SwitchDepths == {3}
ScoreArrays ==
    {[x \in 0 .. 3 |-> IF x = Up THEN u ELSE IF x = Right THEN r ELSE DRAW] :
        u \in ScoreValues, r \in ScoreValues}
Heuristics ==
    {[first |-> a, later |-> b, from |-> k] :
        a \in ScoreArrays, b \in ScoreArrays, k \in SwitchDepths}

Timeouts == {FAST_TIMEOUT - 1, FAST_TIMEOUT, FAST_TIMEOUT + 1}

InitDriver ==
    /\ game \in DriverGames
    /\ prev = game
    /\ moves = NoMoves
    /\ steps = 0
    /\ DriverIdle
    /\ FloodIdle
    /\ SearchIdle
    /\ AsyncIdle
    /\ AStarIdle
    /\ RequestIdle
    /\ MobilityIdle
    /\ FixedVecIdle

\* step() is called (maxn.rs:18-29): the fast path runs its one depth-1
\* search (step_fast, maxn.rs:46) and returns at once,
\* otherwise the channel is created and the search future starts at depth 1.
DriverStart ==
    /\ pc = "idle"
    /\ \E t \in Timeouts, h \in Heuristics :
          /\ timeout' = t
          /\ heur' = h
          /\ IF t <= FAST_TIMEOUT
             THEN /\ answer' = StepFast(h, game)
                  /\ searched' = <<1>>
                  /\ pc' = "done"
                  /\ UNCHANGED <<depth, senders>>
             ELSE /\ pc' = "search"
                  /\ depth' = 1
                  /\ senders' = 1
                  /\ UNCHANGED <<answer, searched>>
    /\ UNCHANGED <<chan, result, published, interrupted, gameVars, floodVars, searchVars, asyncVars, astarVars, requestVars, mobilityVars, fixedVars>>

\* One iteration of iterative_tree_search (maxn.rs:66-81): the depth's
\* tree_search completes, its result is sent unless its value is <= LOSS, and
\* the loop goes on unless the value is <= LOSS or >= WIN or the depth is the
\* last one.  Leaving the loop completes the future and drops the Sender.
SearchDepth ==
    /\ pc = "search"
    /\ LET arr == Scores(heur, game, depth)
           am == Argmax(arr)
       IN IF am = NoDir
          THEN /\ pc' = "panicked"
               /\ UNCHANGED <<depth, chan, senders, published, searched>>
          ELSE LET dir == am
                   value == arr[am]
               IN /\ searched' = Append(searched, depth)
                  /\ IF value <= LOSS
                     THEN /\ pc' = "drain"
                          /\ senders' = 0
                          /\ UNCHANGED <<depth, chan, published>>
                     ELSE /\ Len(chan) < MAX_DEPTH
                          /\ chan' = Append(chan, dir)
                          /\ published' = Append(published, <<depth, dir>>)
                          /\ IF value >= WIN \/ RangeEnds(depth)
                             THEN /\ pc' = "drain"
                                  /\ senders' = 0
                                  /\ UNCHANGED depth
                             ELSE /\ pc' = "search"
                                  /\ depth' = depth + 1
                                  /\ UNCHANGED senders
    /\ UNCHANGED <<result, answer, heur, timeout, interrupted, gameVars, floodVars, searchVars, asyncVars, astarVars, requestVars, mobilityVars, fixedVars>>

\* The deadline of time::timeout fires while the search is awaited
\* (maxn.rs:25-29): the future is dropped in the middle of the depth.
Deadline ==
    /\ pc = "search"
    /\ pc' = "drain"
    /\ senders' = DropFuture(senders)
    /\ interrupted' = depth
    /\ UNCHANGED <<depth, chan, result, answer, heur, timeout, published, searched,
                   gameVars, floodVars, searchVars, asyncVars, astarVars, requestVars, mobilityVars, fixedVars>>

\* receiver.recv() yields a direction (maxn.rs:32-34).
RecvSome ==
    /\ pc = "drain"
    /\ chan # <<>>
    /\ result' = Received(result, chan[1])
    /\ chan' = Tail(chan)
    /\ UNCHANGED <<pc, depth, senders, answer, heur, timeout, published, searched,
                   interrupted, gameVars, floodVars, searchVars, asyncVars, astarVars, requestVars, mobilityVars, fixedVars>>

\* receiver.recv() yields None, the channel being empty and closed, and
\* step() returns (maxn.rs:36-41).
RecvNone ==
    /\ pc = "drain"
    /\ chan = <<>>
    /\ senders = 0
    /\ answer' = IF result # NoDir THEN result ELSE Fallback(game)
    /\ pc' = "done"
    /\ UNCHANGED <<depth, chan, senders, result, heur, timeout, published, searched,
                   interrupted, gameVars, floodVars, searchVars, asyncVars, astarVars, requestVars, mobilityVars, fixedVars>>

NextDriver == DriverStart \/ SearchDepth \/ Deadline \/ RecvSome \/ RecvNone

SpecDriver == InitDriver /\ [][NextDriver]_vars

\* The runtime polls a task that can make progress, and a search of bounded
\* depth over a finite game completes.
SpecDriverFair ==
    /\ SpecDriver
    /\ WF_vars(SearchDepth)
    /\ WF_vars(RecvSome)
    /\ WF_vars(RecvNone)

(***************************************************************************)
(* FloodFill: floodfill.rs flood_snakes and flood.                         *)
(***************************************************************************)
\* The games the flood fill is run on: the loaded games with one or two
\* snakes, at low or full health, and games with two to five food cells
\* around one snake or between two snakes.
FloodHealth == {3, 100}
FloodLayouts == InitOne \cup InitTwo
FloodFeasts ==
    {{<<1, 0>>, <<0, 1>>},
     {<<1, 0>>, <<0, 1>>, <<1, 1>>, <<2, 0>>},
     {<<1, 0>>, <<0, 1>>, <<1, 1>>, <<2, 0>>, <<0, 2>>}}
FloodGames ==
    UNION {{Reset([i \in 1 .. Len(bodies) |-> SnakeNew(i - 1, bodies[i], healths[i])],
                  food, hz) :
               healths \in [1 .. Len(bodies) -> FloodHealth],
               food \in {f \in InitFood : \A i \in 1 .. Len(bodies) :
                                             f \cap BodyCells(bodies[i]) = {}},
               hz \in InitHazards} : bodies \in FloodLayouts}
    \cup {Reset(<<SnakeNew(0, <<<<0, 0>>, <<0, 0>>, <<0, 0>>>>, 100)>>, food, {}) :
              food \in FloodFeasts}
    \cup {Reset(<<SnakeNew(0, <<<<0, 0>>, <<0, 0>>>>, 100),
                  SnakeNew(1, b1, 100)>>, food, {}) :
              b1 \in {<<<<2, 2>>, <<2, 2>>>>, <<<<2, 2>>, <<2, 2>>, <<2, 2>>>>},
              food \in FloodFeasts}

InitFlood ==
    /\ game \in FloodGames
    /\ prev = game
    /\ moves = NoMoves
    /\ steps = 0
    /\ DriverIdle
    /\ FloodIdle
    /\ SearchIdle
    /\ AsyncIdle
    /\ AStarIdle
    /\ RequestIdle
    /\ MobilityIdle
    /\ FixedVecIdle

\* flood_snakes up to the call of flood, and flood up to its loop
\* (floodfill.rs:251-271, 195-199)
FloodSnakes ==
    /\ fpc = "idle"
    /\ fpc' = "flood"
    /\ fcells' = Prepare(game.snakes)
    /\ fqueue' = FloodHeads(game.snakes, 1)
    /\ ffood' = FixedVecNew(4)
    /\ fbefore' = Prepare(game.snakes)
    /\ UNCHANGED <<felem, fclaimed, gameVars, driverVars, searchVars, asyncVars, astarVars, requestVars, mobilityVars, fixedVars>>

\* one iteration of flood's loop: the front element is popped and its
\* neighbours are visited (floodfill.rs:201-243)
FloodPop ==
    /\ fpc = "flood"
    /\ fqueue # <<>>
    /\ LET e == fqueue[1]
           st == FloodNeighbours([cells |-> fcells, queue |-> Tail(fqueue),
                                  food_distances |-> ffood, claimed |-> {}],
                                 game.grid, e, 1)
       IN /\ fcells' = st.cells
          /\ fqueue' = st.queue
          /\ ffood' = st.food_distances
          /\ fclaimed' = st.claimed
          /\ felem' = e
    /\ fbefore' = fcells
    /\ UNCHANGED <<fpc, gameVars, driverVars, searchVars, asyncVars, astarVars, requestVars, mobilityVars, fixedVars>>

\* the queue is empty: flood and flood_snakes return (floodfill.rs:244)
FloodReturn ==
    /\ fpc = "flood"
    /\ fqueue = <<>>
    /\ fpc' = "done"
    /\ UNCHANGED <<fcells, fqueue, ffood, felem, fbefore, fclaimed, gameVars, driverVars, searchVars, asyncVars, astarVars, requestVars, mobilityVars, fixedVars>>

NextFlood == FloodSnakes \/ FloodPop \/ FloodReturn

SpecFlood == InitFlood /\ [][NextFlood]_vars

\* The games the termination of the fill is checked on: those with two
\* snakes whose heads are two cells apart, the second at full health, those
\* with several food cells, and those of one snake that lies in the bottom
\* row.
FloodFairGames ==
    {g \in FloodGames :
        \/ /\ Len(g.snakes) = 2
           /\ SnakeHead(g.snakes[1]) = <<1, 0>>
           /\ g.snakes[2].health = 100
        \/ Cardinality({c \in Cells : g.grid[c].food}) >= 2
        \/ /\ Len(g.snakes) = 1
           /\ \A k \in 1 .. Len(g.snakes[1].body) : g.snakes[1].body[k][2] = 0}

InitFloodFair ==
    /\ game \in FloodFairGames
    /\ prev = game
    /\ moves = NoMoves
    /\ steps = 0
    /\ DriverIdle
    /\ FloodIdle
    /\ SearchIdle
    /\ AsyncIdle
    /\ AStarIdle
    /\ RequestIdle
    /\ MobilityIdle
    /\ FixedVecIdle

\* flood_snakes is sequential code: once called it runs on, statement after
\* statement, without waiting for anything.
SpecFloodFair ==
    /\ InitFloodFair
    /\ [][NextFlood]_vars
    /\ WF_vars(FloodSnakes)
    /\ WF_vars(FloodPop)
    /\ WF_vars(FloodReturn)

(***************************************************************************)
(* Tree search: max_n from the root, and the simulate branches of          *)
(* max_n_rec and alphabeta_rec along one path of the search tree.          *)
(***************************************************************************)
SearchDepths == {0, 1, 2}

\* Heuristics, all with values strictly between LOSS and WIN.
SearchHeuristics ==
    {[base |-> 5, health |-> 1, len |-> 10, x |-> 1, y |-> -2, dead |-> -50],
     [base |-> -100, health |-> -1, len |-> 0, x |-> 3, y |-> 1, dead |-> 7]}

\* Snake 0 in the bottom row beside a snake of length five that its own
\* body and the walls leave one valid move.
FrozenLayouts ==
    {<<<<<<0, 0>>, <<1, 0>>>>, b1>> :
        b1 \in {<<<<0, 1>>, <<1, 1>>, <<1, 2>>, <<2, 2>>, <<2, 1>>>>,
                <<<<0, 2>>, <<0, 1>>, <<1, 1>>, <<1, 2>>, <<2, 2>>>>}}

\* One snake in the middle row, the two-snake layouts without a stacked
\* tail, the layouts with a hemmed-in second snake, and the three-snake
\* layouts.
SearchLayouts ==
    {<<b>> : b \in RowBodies(1, 1)}
    \cup {l \in InitTwo : \A i \in 1 .. 2 : l[i][1] # l[i][2]}
    \cup FrozenLayouts
    \cup InitThree

SearchGames ==
    {Reset([i \in 1 .. Len(bodies) |-> SnakeNew(i - 1, bodies[i], healths[i])],
           {}, hz) :
        bodies \in SearchLayouts, healths \in InitHealths(3), hz \in InitHazards}

InitSearch ==
    /\ DriverIdle
    /\ FloodIdle
    /\ game \in SearchGames
    /\ prev = game
    /\ moves = NoMoves
    /\ steps = 0
    /\ spc = "idle"
    /\ sdepth \in SearchDepths
    /\ sheur \in SearchHeuristics
    /\ sscores = NoScores
    /\ sdir = NoDir
    /\ svalue = 0
    /\ sevaluated = FALSE
    /\ AsyncIdle
    /\ AStarIdle
    /\ RequestIdle
    /\ MobilityIdle
    /\ FixedVecIdle

\* max_n(game, sdepth, sheur)
SearchMaxN ==
    /\ spc = "idle"
    /\ sdepth >= 1
    /\ sscores' = MaxN(game, sdepth, sheur)
    /\ spc' = "done"
    /\ UNCHANGED <<sdepth, sheur, sdir, svalue, sevaluated, gameVars, driverVars, floodVars, asyncVars, astarVars, requestVars, mobilityVars, fixedVars>>

\* The action arrays max_n_rec can reach its simulate branch with: a valid
\* move for every snake that has one, Up for the others; none when snake 0
\* has no valid move.
MaxNActions(g) ==
    {a \in [1 .. 4 -> DirSet] :
        /\ MoveIsValid(g, 0, a[1])
        /\ \A i \in 2 .. 4 :
              IF \E d \in DirSet : MoveIsValid(g, i - 1, d)
              THEN MoveIsValid(g, i - 1, a[i]) ELSE a[i] = Up}

\* The action arrays alphabeta_rec reaches its simulate branch with: any
\* direction for every snake of the list.
AlphaBetaActions(g) ==
    {a \in [1 .. 4 -> DirSet] : \A i \in Len(g.snakes) + 1 .. 4 : a[i] = Up}

\* One simulate branch of max_n_rec, on the game the previous one left.
SimulateMaxN ==
    /\ spc \in {"idle", "maxn"}
    /\ sdepth >= 1
    /\ steps = 0 \/ Outcome(game).tag = "None"
    /\ \E a \in MaxNActions(game) :
          /\ svalue' = MaxNRec(game, sdepth, Len(game.snakes), a, sheur)
          /\ sevaluated' = MaxNEvaluates(game, sdepth, a)
          /\ game' = StepGame(game, a)
          /\ moves' = a
    /\ prev' = game
    /\ steps' = steps + 1
    /\ sdepth' = sdepth - 1
    /\ spc' = "maxn"
    /\ UNCHANGED <<sheur, sscores, sdir, driverVars, floodVars, asyncVars, astarVars, requestVars, mobilityVars, fixedVars>>

\* One simulate branch of alphabeta_rec, on the game the previous one left;
\* alphabeta is given games of at most two snakes.
SimulateAlphaBeta ==
    /\ spc \in {"idle", "alphabeta"}
    /\ sdepth \in {0, 1}
    /\ Len(game.snakes) <= 2
    /\ steps = 0 \/ Outcome(game).tag = "None"
    /\ \E a \in AlphaBetaActions(game) :
          /\ svalue' = AlphaBetaRec(game, a, sdepth, Len(game.snakes), LOSS, WIN, sheur).val
          /\ sevaluated' = AlphaBetaEvaluates(game, a, sdepth)
          /\ game' = StepGame(game, a)
          /\ moves' = a
    /\ prev' = game
    /\ steps' = steps + 1
    /\ sdepth' = sdepth - 1
    /\ spc' = "alphabeta"
    /\ UNCHANGED <<sheur, sscores, sdir, driverVars, floodVars, asyncVars, astarVars, requestVars, mobilityVars, fixedVars>>

\* alphabeta(game, sdepth, sheur), on a game of at most two snakes
SearchAlphaBeta ==
    /\ spc = "idle"
    /\ sdepth \in {0, 1}
    /\ Len(game.snakes) <= 2
    /\ LET r == AlphaBeta(game, sdepth, sheur)
       IN /\ sdir' = r.dir
          /\ svalue' = r.val
    /\ spc' = "abdone"
    /\ UNCHANGED <<sdepth, sheur, sscores, sevaluated, gameVars, driverVars, floodVars, asyncVars, astarVars, requestVars, mobilityVars, fixedVars>>

NextSearch == SearchMaxN \/ SearchAlphaBeta \/ SimulateMaxN \/ SimulateAlphaBeta

SpecSearch == InitSearch /\ [][NextSearch]_vars

(***************************************************************************)
(* The parallel search: async_max_n and the tasks it and                   *)
(* async_max_n_rec spawn.  A task without unfinished awaits runs in one    *)
(* piece; tasks that are ready run in any order.                           *)
(***************************************************************************)
AsyncDepths == {1, 2}

\* Two-snake layouts with snake 0's head in the corner and no stacked tail.
AsyncLayouts ==
    {l \in InitTwo : l[1][Len(l[1])] = <<0, 0>> /\ \A i \in 1 .. 2 : l[i][1] # l[i][2]}

AsyncGames ==
    {Reset([i \in 1 .. Len(bodies) |-> SnakeNew(i - 1, bodies[i], healths[i])], {}, hz) :
        bodies \in AsyncLayouts, healths \in {<<100, 100>>}, hz \in InitHazards}

InitAsync ==
    /\ DriverIdle
    /\ FloodIdle
    /\ AsyncIdle
    /\ AStarIdle
    /\ RequestIdle
    /\ MobilityIdle
    /\ FixedVecIdle
    /\ game \in AsyncGames
    /\ prev = game
    /\ moves = NoMoves
    /\ steps = 0
    /\ spc = "idle"
    /\ sdepth \in AsyncDepths
    /\ sheur \in SearchHeuristics
    /\ sscores = NoScores
    /\ sdir = NoDir
    /\ svalue = 0
    /\ sevaluated = FALSE

\* async_max_n up to its join loop: one task per valid move of snake 0
AsyncMaxN ==
    /\ spc = "idle"
    /\ tasks' = Spawn(<<>>, <<>>, game, sdepth)
    /\ spc' = "join"
    /\ UNCHANGED <<sdepth, sheur, sscores, sdir, svalue, sevaluated,
                   gameVars, driverVars, floodVars, astarVars, requestVars, mobilityVars, fixedVars>>

\* The tasks of the max node task t has reached, if it has reached one; the
\* number of action arrays left tells the max nodes of one task apart.
Spawned(t) ==
    IF t.state = "wait"
    THEN Spawn(t.id, t.id \o <<Len(t.todo)>>, t.sub, t.depth - 1)
    ELSE {}

\* A ready task runs until it returns or waits on the tasks it has spawned.
Poll ==
    /\ spc = "join"
    /\ \E t \in tasks :
          /\ t.state = "ready"
          /\ LET r == RunTask(t, sheur)
             IN tasks' = (tasks \ {t}) \cup {r} \cup Spawned(r)
    /\ UNCHANGED <<searchVars, gameVars, driverVars, floodVars, astarVars, requestVars, mobilityVars, fixedVars>>

\* the value of the task joined last is kept in the place of the maximum
JoinNextKeepsLast ==
    /\ spc = "join"
    /\ \E t \in tasks, c \in tasks :
          /\ t.state = "wait"
          /\ c.parent = t.id
          /\ c.state = "done"
          /\ tasks' = (tasks \ {t, c})
                \cup {[t EXCEPT !.pending = @ - 1, !.max = c.value]}
    /\ UNCHANGED <<searchVars, gameVars, driverVars, floodVars, astarVars, requestVars, mobilityVars, fixedVars>>

\* async_max_n_rec, ply == 0: join_next hands over a finished task
JoinNext ==
    /\ spc = "join"
    /\ \E t \in tasks, c \in tasks :
          /\ t.state = "wait"
          /\ c.parent = t.id
          /\ c.state = "done"
          /\ tasks' = (tasks \ {t, c})
                \cup {[t EXCEPT !.pending = @ - 1,
                                !.max = IF c.value > @ THEN c.value ELSE @]}
    /\ UNCHANGED <<searchVars, gameVars, driverVars, floodVars, astarVars, requestVars, mobilityVars, fixedVars>>

\* async_max_n_rec, ply == 0: the JoinSet is empty, the maximum goes back
\* to the min loops and the task runs on
JoinEnd ==
    /\ spc = "join"
    /\ \E t \in tasks :
          /\ t.state = "wait"
          /\ t.pending = 0
          /\ LET r == RunTask(Absorb([t EXCEPT !.state = "ready"], t.max), sheur)
             IN tasks' = (tasks \ {t}) \cup {r} \cup Spawned(r)
    /\ UNCHANGED <<searchVars, gameVars, driverVars, floodVars, astarVars, requestVars, mobilityVars, fixedVars>>

\* async_max_n: join_next hands over a finished task
RootJoin ==
    /\ spc = "join"
    /\ \E c \in tasks :
          /\ c.parent = <<>>
          /\ c.state = "done"
          /\ tasks' = tasks \ {c}
          /\ sscores' = [sscores EXCEPT ![c.dir] = c.value]
    /\ UNCHANGED <<spc, sdepth, sheur, sdir, svalue, sevaluated,
                   gameVars, driverVars, floodVars, astarVars, requestVars, mobilityVars, fixedVars>>

\* async_max_n: the JoinSet is empty
RootReturn ==
    /\ spc = "join"
    /\ tasks = {}
    /\ spc' = "done"
    /\ UNCHANGED <<sdepth, sheur, sscores, sdir, svalue, sevaluated, tasks,
                   gameVars, driverVars, floodVars, astarVars, requestVars, mobilityVars, fixedVars>>

NextAsync == AsyncMaxN \/ Poll \/ JoinNext \/ JoinEnd \/ RootJoin \/ RootReturn

SpecAsync == InitAsync /\ [][NextAsync]_vars

(***************************************************************************)
(* Grid::a_star as a loop: one action per element popped from the heap.    *)
(* OrdPair compares the keys only, so that among the entries with the       *)
(* smallest key any one can be popped.  Two pushes of one position with    *)
(* the same key are one entry here: the second pop would find every        *)
(* neighbour's cost already as low and push nothing.                       *)
(***************************************************************************)
\* snakes on the cells around the middle of the small grid
AStarOccupied == SUBSET {<<0, 1>>, <<1, 1>>, <<2, 1>>, <<1, 2>>}

AStarHazards == {{}, {<<1, 1>>}, {<<1, 0>>, <<1, 1>>}}

AStarStarts == {<<0, 0>>, <<1, 0>>}

\* first-move costs in hundredths: none, the cost of the test grid_a_star,
\* the unit costs of the test grid_a_star_hazards, and fractions of
\* first_move_cost as MobilityAgent::step passes them
AStarCosts ==
    {<<0, 0, 0, 0>>, <<100, 0, 0, 0>>, <<100, 100, 100, 100>>, <<25, 20, 20, 30>>}

\* the arguments of a call: every small grid with every start, target and
\* costs, and one grid a cell wider and higher with a snake between start
\* and target
AStarInputs ==
    [grid : {CoreGrid(Width, Height, occ, hz) : occ \in AStarOccupied, hz \in AStarHazards},
     start : AStarStarts, target : Cells, costs : AStarCosts]
    \cup
    [grid : {CoreGrid(Width + 1, Height + 1, {<<2, 2>>}, {})},
     start : {<<3, 2>>}, target : {<<1, 2>>}, costs : {<<25, 20, 20, 30>>}]

InitAStar ==
    /\ DriverIdle
    /\ FloodIdle
    /\ SearchIdle
    /\ AsyncIdle
    /\ RequestIdle
    /\ MobilityIdle
    /\ FixedVecIdle
    /\ game = Reset(<<SnakeNew(0, <<<<0, 0>>, <<0, 0>>>>, 100)>>, {}, {})
    /\ prev = game
    /\ moves = NoMoves
    /\ steps = 0
    /\ apc = "idle"
    /\ \E in \in AStarInputs :
          /\ agrid = in.grid
          /\ astart = in.start
          /\ atarget = in.target
          /\ acosts = in.costs
    /\ aqueue = {}
    /\ adata = NoData
    /\ apath = <<>>

\* a_star up to its loop
AStarCall ==
    /\ apc = "idle"
    /\ adata' = AStarData(astart)
    /\ aqueue' = {<<0, astart>>}
    /\ apc' = "loop"
    /\ UNCHANGED <<agrid, astart, atarget, acosts, apath,
                   gameVars, driverVars, floodVars, searchVars, asyncVars, requestVars, mobilityVars, fixedVars>>

\* one iteration of the while loop
AStarPop ==
    /\ apc = "loop"
    /\ \E e \in aqueue :
          /\ \A o \in aqueue : e[1] <= o[1]
          /\ IF e[2] = atarget
             THEN /\ apath' = MakePath(adata, atarget)
                  /\ apc' = "found"
                  /\ aqueue' = aqueue \ {e}
                  /\ UNCHANGED adata
             ELSE LET st == AStarNeighbors(agrid, astart, acosts, e[2],
                                           [data |-> adata, queue |-> aqueue \ {e}], 1)
                  IN /\ adata' = st.data
                     /\ aqueue' = st.queue
                     /\ UNCHANGED <<apc, apath>>
    /\ UNCHANGED <<agrid, astart, atarget, acosts,
                   gameVars, driverVars, floodVars, searchVars, asyncVars, requestVars, mobilityVars, fixedVars>>

\* the heap is empty: None
AStarNone ==
    /\ apc = "loop"
    /\ aqueue = {}
    /\ apc' = "none"
    /\ UNCHANGED <<agrid, astart, atarget, acosts, aqueue, adata, apath,
                   gameVars, driverVars, floodVars, searchVars, asyncVars, requestVars, mobilityVars, fixedVars>>

NextAStar == AStarCall \/ AStarPop \/ AStarNone

SpecAStar == InitAStar /\ [][NextAStar]_vars

(***************************************************************************)
(* Game::reset_from_request on the requests of a small family: you and up  *)
(* to five other snakes.  The health of a snake of the request tells its   *)
(* place in the list of the board.                                         *)
(***************************************************************************)
MaxOthers == 5

RequestYouBodies == {<<<<0, 0>>, <<1, 0>>>>, <<<<1, 1>>, <<1, 0>>>>}

RequestBodies ==
    {<<<<0, 1>>, <<0, 2>>>>, <<<<2, 2>>, <<2, 1>>>>, <<<<1, 2>>, <<1, 1>>>>,
     <<<<2, 0>>, <<2, 0>>>>}

\* the snakes of the board: the others with you at place at
BoardSnakes(you, bodies, at) ==
    [i \in 1..(Len(bodies) + 1) |->
        IF i = at THEN Battlesnake(0, 100 - i, you)
        ELSE Battlesnake(i, 100 - i, bodies[IF i < at THEN i ELSE i - 1])]

\* the requests with at most the given number of other snakes
Requests(most) ==
    UNION {{[you |-> BoardSnakes(you, bodies, at)[at],
             board |-> [food |-> {}, hazards |-> {},
                        snakes |-> BoardSnakes(you, bodies, at)]] :
               you \in RequestYouBodies, at \in {1, Len(bodies) + 1}} :
           bodies \in UNION {[1..n -> RequestBodies] : n \in 0..most}}

InitRequest ==
    /\ DriverIdle
    /\ FloodIdle
    /\ SearchIdle
    /\ AsyncIdle
    /\ AStarIdle
    /\ MobilityIdle
    /\ FixedVecIdle
    /\ game = Reset(<<SnakeNew(0, <<<<0, 0>>, <<0, 0>>>>, 100)>>, {}, {})
    /\ prev = game
    /\ moves = NoMoves
    /\ steps = 0
    /\ request \in Requests(MaxOthers)
    /\ rpc = "idle"

\* Game::reset_from_request
ResetFromRequest ==
    /\ rpc = "idle"
    /\ \E sn \in RequestSnakes(request) :
          game' = Reset(sn, request.board.food, request.board.hazards)
    /\ rpc' = "done"
    /\ UNCHANGED <<request, prev, moves, steps,
                   driverVars, floodVars, searchVars, asyncVars, astarVars, mobilityVars, fixedVars>>

NextRequest == ResetFromRequest

SpecRequest == InitRequest /\ [][NextRequest]_vars

(***************************************************************************)
(* MobilityAgent::step on the results of its searches: the areas after the *)
(* four moves, up to two foods, a short or a long snake at a health on     *)
(* either side of the threshold.                                           *)
(***************************************************************************)
MobilitySpaces ==
    {[d \in 0 .. 3 |-> IF d = Up THEN u ELSE IF d = Right THEN r
                        ELSE IF d = Down THEN w ELSE 0] :
        u \in {0, 2, 3}, r \in {0, 1, 2}, w \in {0, 2}}

MobilityFoodPaths ==
    {FoodPath(FALSE, 0, Up, FALSE), FoodPath(TRUE, 1, Up, TRUE)}
    \cup {FoodPath(TRUE, len, dir, mine) :
             len \in {2, 4}, dir \in {Up, Right, Down}, mine \in BOOLEAN}

MobilityFoods == UNION {[1 .. n -> MobilityFoodPaths] : n \in 0 .. 2}

\* length and health of you
MobilitySnakes == {<<3, HEALTH_THRESHOLD>>, <<MIN_LEN, HEALTH_THRESHOLD - 1>>,
                   <<MIN_LEN, HEALTH_THRESHOLD>>}

InitMobility ==
    /\ DriverIdle
    /\ FloodIdle
    /\ SearchIdle
    /\ AsyncIdle
    /\ AStarIdle
    /\ RequestIdle
    /\ FixedVecIdle
    /\ game = Reset(<<SnakeNew(0, <<<<0, 0>>, <<0, 0>>>>, 100)>>, {}, {})
    /\ prev = game
    /\ moves = NoMoves
    /\ steps = 0
    /\ mpc = "idle"
    /\ mspace \in MobilitySpaces
    /\ mfood \in MobilityFoods
    /\ \E you \in MobilitySnakes : mlen = you[1] /\ mhealth = you[2]
    /\ \E more \in {{}, {Down}} : mvalid = {d \in DirSet : mspace[d] > 0} \cup more
    /\ mmove = NoDir

\* MobilityAgent::step
MobilityStep ==
    /\ mpc = "idle"
    /\ mmove' \in MobilityMoves(mfood, mspace, mlen, mhealth, mvalid)
    /\ mpc' = "done"
    /\ UNCHANGED <<mspace, mfood, mlen, mhealth, mvalid,
                   gameVars, driverVars, floodVars, searchVars, asyncVars, astarVars,
                   requestVars, fixedVars>>

NextMobility == MobilityStep

SpecMobility == InitMobility /\ [][NextMobility]_vars

(***************************************************************************)
(* Game::step on games with four snakes, their heads around <<1, 1>>.      *)
(***************************************************************************)
InitFour ==
    {<<l[1], l[2], l[3], b3>> :
        l \in InitThree,
        b3 \in {b \in RowBodies(2, 1) : b[1] = <<2, 1>>}}

InitHeadToHead ==
    /\ DriverIdle
    /\ FloodIdle
    /\ SearchIdle
    /\ AsyncIdle
    /\ AStarIdle
    /\ RequestIdle
    /\ MobilityIdle
    /\ FixedVecIdle
    /\ \E bodies \in InitFour :
       \E health \in InitHealth :
       \E hz \in InitHazards :
          game = Reset([i \in 1 .. 4 |->
                           SnakeNew(i - 1, bodies[i], IF i = 1 THEN health ELSE 100)],
                       {}, hz)
    /\ prev = game
    /\ moves = NoMoves
    /\ steps = 0

\* step() called on the loaded game
FirstStep == steps = 0 /\ Step

NextHeadToHead == FirstStep

SpecHeadToHead == InitHeadToHead /\ [][NextHeadToHead]_vars

(***************************************************************************)
(* FixedVec (util.rs:52-88) under any sequence of push and pop, as in the  *)
(* test fixed_vec (util.rs:129-146).                                       *)
(***************************************************************************)
MaxOps == 6
FixedVecCapacities == {1, 2, 4}
FixedVecValues == {1, 2}

InitFixedVec ==
    /\ game = Reset(<<SnakeNew(0, <<<<0, 0>>, <<0, 0>>>>, 100)>>, {}, {})
    /\ prev = game
    /\ moves = NoMoves
    /\ steps = 0
    /\ DriverIdle
    /\ FloodIdle
    /\ SearchIdle
    /\ AsyncIdle
    /\ AStarIdle
    /\ RequestIdle
    /\ MobilityIdle
    /\ \E N \in FixedVecCapacities : vec = FixedVecNew(N)
    /\ vbefore = vec
    /\ vret = [op |-> "new"]
    /\ vhist = <<>>

\* v.push(x)
FixedVecPushCall ==
    /\ Len(vhist) < MaxOps
    /\ \E x \in FixedVecValues :
          /\ vec' = FixedVecPush(vec, x).vec
          /\ vret' = [op |-> "push", ret |-> FixedVecPush(vec, x).ret]
          /\ vhist' = Append(vhist, [op |-> "push", arg |-> x])
    /\ vbefore' = vec
    /\ UNCHANGED <<gameVars, driverVars, floodVars, searchVars, asyncVars, astarVars, requestVars, mobilityVars>>

\* v.pop()
FixedVecPopCall ==
    /\ Len(vhist) < MaxOps
    /\ vec' = FixedVecPop(vec).vec
    /\ vret' = [op |-> "pop", ret |-> FixedVecPop(vec).ret]
    /\ vhist' = Append(vhist, [op |-> "pop", arg |-> None])
    /\ vbefore' = vec
    /\ UNCHANGED <<gameVars, driverVars, floodVars, searchVars, asyncVars, astarVars, requestVars, mobilityVars>>

NextFixedVec == FixedVecPushCall \/ FixedVecPopCall

SpecFixedVec == InitFixedVec /\ [][NextFixedVec]_vars

(***************************************************************************)
(* The latest step() call, for the properties of step().                   *)
(***************************************************************************)
Stepped == steps > 0
Ids(g) == 1 .. Len(g.snakes)
\* the game after the tails were removed, and after the heads were moved
Popped == PopTail(prev)
Moved == MoveHeads(Popped, moves)
\* the cell the head of snake i moved to
NewHead(i) == Apply(SnakeHead(prev.snakes[i]), moves[i])
\* the snakes that were alive before the step and moved their head
Movers == {i \in Ids(prev) : Alive(prev.snakes[i])}
LandsOnFree(i) == Has(NewHead(i)) /\ ~Popped.grid[NewHead(i)].owned
Living(g) == {i \in Ids(g) : Alive(g.snakes[i])}

(***************************************************************************)
(* C1: after any sequence of step() calls every position of every living   *)
(* snake's body is Owned in the grid.                                      *)
(***************************************************************************)
C1_LivingBodiesOwned ==
    \A i \in Living(game) :
        \A k \in 1 .. Len(game.snakes[i].body) : game.grid[game.snakes[i].body[k]].owned

(***************************************************************************)
(* C2: after any sequence of step() calls every Owned cell lies in the     *)
(* body of some living snake.                                              *)
(***************************************************************************)
C2_OwnedInLivingBody ==
    \A c \in Cells :
        game.grid[c].owned => \E i \in Living(game) : c \in BodyCells(game.snakes[i].body)

\* a step in which one snake died with its body on the board, another
\* vacated its tail cell and lives on
C2_Witness ==
    /\ Stepped
    /\ \E i \in Movers : ~Alive(game.snakes[i]) /\ Has(NewHead(i))
    /\ \E j \in Movers :
          /\ Alive(game.snakes[j])
          /\ prev.snakes[j].body[1] # prev.snakes[j].body[2]
          /\ ~game.grid[prev.snakes[j].body[1]].owned

(***************************************************************************)
(* C5: a living snake whose new head lands on a Food cell and that         *)
(* survives the step has health 100 and a body one segment longer than     *)
(* before the step.                                                        *)
(***************************************************************************)
C5_EatingGrows ==
    Stepped =>
        \A i \in Movers :
            (LandsOnFree(i) /\ Popped.grid[NewHead(i)].food /\ Alive(game.snakes[i]))
            => /\ game.snakes[i].health = 100
               /\ Len(game.snakes[i].body) = Len(prev.snakes[i].body) + 1

(***************************************************************************)
(* C6: when exactly two living snakes move their heads onto the same cell, *)
(* the strictly longer one is alive after the step and the other is dead;  *)
(* with equal lengths both are dead, and the outcome is a draw when no     *)
(* other snake lives.                                                      *)
(***************************************************************************)
\* i and j, and no third snake, moved their heads onto the same cell
OnlyTwoOnCell(i, j) ==
    /\ i # j
    /\ Has(NewHead(i))
    /\ NewHead(i) = NewHead(j)
    /\ \A k \in Movers \ {i, j} : NewHead(k) # NewHead(i)

HeadToHeadRule(i, j) ==
    LET li == Len(prev.snakes[i].body)
        lj == Len(prev.snakes[j].body)
    IN /\ li > lj => Alive(game.snakes[i]) /\ ~Alive(game.snakes[j])
       /\ li = lj =>
             /\ ~Alive(game.snakes[i]) /\ ~Alive(game.snakes[j])
             /\ Living(game) = {} => Outcome(game) = OutcomeMatch

C6_Original ==
    Stepped => \A i, j \in Movers : OnlyTwoOnCell(i, j) => HeadToHeadRule(i, j)

\* C6 as amended: the rule holds for two snakes that are both alive after
\* the head moves, that is, the cell is not Owned once the tails are removed
\* and neither snake ran out of health entering it.
C6_HeadToHead ==
    Stepped =>
        \A i, j \in Movers :
            (OnlyTwoOnCell(i, j) /\ Alive(Moved.snakes[i]) /\ Alive(Moved.snakes[j]))
            => HeadToHeadRule(i, j)

\* a longer snake won a head-to-head
C6_Witness ==
    /\ Stepped
    /\ \E i, j \in Movers :
          /\ OnlyTwoOnCell(i, j)
          /\ Alive(Moved.snakes[i]) /\ Alive(Moved.snakes[j])
          /\ Len(prev.snakes[i].body) > Len(prev.snakes[j].body)
          /\ Alive(game.snakes[i]) /\ ~Alive(game.snakes[j])

(***************************************************************************)
(* C7: a living snake whose new head is outside the grid, or on a cell     *)
(* that is still Owned after all tails were removed, has health 0 after    *)
(* the step.                                                               *)
(***************************************************************************)
C7_CollisionKills ==
    Stepped =>
        \A i \in Movers :
            (~Has(NewHead(i)) \/ Popped.grid[NewHead(i)].owned)
            => game.snakes[i].health = 0

\* one snake left the board and another ran into a body in the same step
C7_Witness ==
    /\ Stepped
    /\ \E i, j \in Movers :
          /\ ~Has(NewHead(i)) /\ game.snakes[i].health = 0
          /\ Has(NewHead(j)) /\ Popped.grid[NewHead(j)].owned /\ game.snakes[j].health = 0

(***************************************************************************)
(* C8: a snake whose new head lands on an in-bounds, non-Owned, non-Food   *)
(* cell loses exactly 1 health, or HAZARD_DAMAGE on a hazardous cell,      *)
(* saturating at 0, and is dead after the step when its health reaches 0.  *)
(***************************************************************************)
LandsOnPlain(i) == LandsOnFree(i) /\ ~Popped.grid[NewHead(i)].food

HealthAfterMove(i) ==
    LET h == prev.snakes[i].health
        lost == IF Popped.grid[NewHead(i)].hazard THEN HAZARD_DAMAGE ELSE 1
    IN IF h - lost > 0 THEN h - lost ELSE 0

C8_Original ==
    Stepped =>
        \A i \in Movers :
            LandsOnPlain(i) =>
                /\ game.snakes[i].health = HealthAfterMove(i)
                /\ HealthAfterMove(i) = 0 => ~Alive(game.snakes[i])

\* snake i lost a head-to-head: another snake that is alive after the head
\* moves has its head on the same cell and is at least as long
LostHeadToHead(i) ==
    \E j \in Movers \ {i} :
        /\ Alive(Moved.snakes[i]) /\ Alive(Moved.snakes[j])
        /\ NewHead(j) = NewHead(i)
        /\ Len(prev.snakes[j].body) >= Len(prev.snakes[i].body)

\* C8 as amended: the health is as stated unless the snake loses a
\* head-to-head in the same step, which leaves it with health 0.
C8_HealthLoss ==
    Stepped =>
        \A i \in Movers :
            LandsOnPlain(i) =>
                /\ game.snakes[i].health =
                      IF LostHeadToHead(i) THEN 0 ELSE HealthAfterMove(i)
                /\ HealthAfterMove(i) = 0 => ~Alive(game.snakes[i])

\* in one step a snake lost 1 health, another lost HAZARD_DAMAGE or was
\* brought to 0 by it
C8_Witness ==
    /\ Stepped
    /\ \E i, j \in Movers :
          /\ LandsOnPlain(i) /\ ~Popped.grid[NewHead(i)].hazard
          /\ game.snakes[i].health = prev.snakes[i].health - 1
          /\ Alive(game.snakes[i])
          /\ LandsOnPlain(j) /\ Popped.grid[NewHead(j)].hazard
          /\ prev.snakes[j].health < HAZARD_DAMAGE
          /\ ~Alive(game.snakes[j])

(***************************************************************************)
(* C9: outcome() is None exactly when at least two snakes are alive,       *)
(* Winner(id) exactly when one snake is alive and id is its id, and Match  *)
(* exactly when no snake is alive.                                         *)
(***************************************************************************)
C9_Outcome ==
    LET living == Living(game)
        o == Outcome(game)
    IN /\ o = OutcomeNone <=> Cardinality(living) >= 2
       /\ o = OutcomeMatch <=> living = {}
       /\ \A id \in 0 .. 3 :
             o = OutcomeWinner(id) <=> living = {id + 1} /\ game.snakes[id + 1].id = id
       /\ o.tag = "Winner" => o.id \in 0 .. 3

\* the last step left a snake other than snake 0 as the only survivor
C9_Witness ==
    /\ Stepped
    /\ Cardinality(Living(prev)) >= 2
    /\ Outcome(game).tag = "Winner"
    /\ Outcome(game).id # 0

(***************************************************************************)
(* C10: valid_moves(id) yields nothing for a dead or unknown id and, for a *)
(* living snake, exactly the directions that lead to an in-bounds cell     *)
(* that is not Owned or is the non-stacked tail cell of a living snake.    *)
(***************************************************************************)
Yielded(g, id) == {ValidMoves(g, id)[k] : k \in 1 .. Len(ValidMoves(g, id))}

VacatingTail(g, p) ==
    \E k \in Living(g) : g.snakes[k].body[1] = p /\ g.snakes[k].body[2] # p

C10_ValidMoves ==
    \A id \in 0 .. 4 :
        /\ Yielded(game, id) \subseteq DirSet
        /\ Len(ValidMoves(game, id)) = Cardinality(Yielded(game, id))
        /\ (id + 1 \notin Living(game)) => ValidMoves(game, id) = <<>>
        /\ (id + 1 \in Living(game)) =>
              Yielded(game, id) =
                 {d \in DirSet :
                     LET p == Apply(SnakeHead(game.snakes[id + 1]), d)
                     IN Within(p, Width, Height)
                        /\ (~game.grid[p].owned \/ VacatingTail(game, p))}

\* a living snake may move onto an Owned tail that is about to leave, and
\* may not move onto a stacked tail next to its head
C10_Witness ==
    \E id \in 0 .. 2 :
        /\ id + 1 \in Living(game)
        /\ \E d \in Yielded(game, id) :
              game.grid[Apply(SnakeHead(game.snakes[id + 1]), d)].owned
        /\ \E d \in DirSet \ Yielded(game, id) :
              \E k \in Living(game) :
                 /\ Apply(SnakeHead(game.snakes[id + 1]), d) = game.snakes[k].body[1]
                 /\ game.snakes[k].body[1] = game.snakes[k].body[2]
                 /\ Len(game.snakes[k].body) > 2

(***************************************************************************)
(* C3: the direction the iterative-deepening driver returns is the one     *)
(* published by the deepest depth that published before the deadline;      *)
(* results replace one another in increasing depth order, and the depth    *)
(* the deadline interrupted contributes nothing.                           *)
(***************************************************************************)
C3_DeepestPublishedWins ==
    /\ \A k \in 1 .. Len(published) - 1 : published[k][1] < published[k + 1][1]
    /\ \A k \in 1 .. Len(published) : published[k][1] # interrupted
    /\ (pc = "drain" /\ Len(chan) < Len(published))
          => result = published[Len(published) - Len(chan)][2]
    /\ (pc = "done" /\ timeout > FAST_TIMEOUT /\ published # <<>>)
          => answer = published[Len(published)][2]

\* the deadline cut a depth short after shallower depths had published
\* different directions, and the deepest of them was returned
C3_Witness ==
    /\ pc = "done"
    /\ interrupted > 3
    /\ Len(published) = interrupted - 1
    /\ published[1][2] # published[Len(published)][2]
    /\ answer = published[Len(published)][2]

(***************************************************************************)
(* C4: once called, the driver's step eventually returns one of the four   *)
(* directions: it does not panic, and after the deadline the drain of the  *)
(* published results ends.                                                 *)
(***************************************************************************)
C4_StepReturns == (pc # "idle") ~> (pc = "done" /\ answer \in DirSet)

\* step() returned after the deadline had fired and results were drained
C4_Witness ==
    /\ pc = "done"
    /\ interrupted > 1
    /\ published # <<>>
    /\ answer \in DirSet

(***************************************************************************)
(* C11: a living snake that makes a move move_is_valid accepts is not      *)
(* killed by leaving the board or by running into a body (if it is dead    *)
(* after the step it starved or lost a head-to-head); a living snake that  *)
(* makes a move move_is_valid rejects is dead after the step.              *)
(***************************************************************************)
\* snake i shared its new head cell with another snake that moved
MetAnotherHead(i) == \E j \in Movers \ {i} : NewHead(j) = NewHead(i)

C11_ValidMoveSurvivesCollision ==
    Stepped =>
        \A i \in Movers :
            IF MoveIsValid(prev, i - 1, moves[i])
            THEN /\ LandsOnFree(i)
                 /\ ~Alive(game.snakes[i]) =>
                       \/ Moved.snakes[i].health = 0 /\ HealthAfterMove(i) = 0
                       \/ MetAnotherHead(i)
            ELSE ~Alive(game.snakes[i])

\* in one step a snake followed a tail that left and lives on, and a snake
\* made a rejected move onto a body and died
C11_Witness ==
    /\ Stepped
    /\ \E i, j \in Movers :
          /\ MoveIsValid(prev, i - 1, moves[i])
          /\ prev.grid[NewHead(i)].owned
          /\ Alive(game.snakes[i])
          /\ ~MoveIsValid(prev, j - 1, moves[j])
          /\ Has(NewHead(j))
          /\ ~Alive(game.snakes[j])

(***************************************************************************)
(* The driver's searches, for the properties of its answer.                *)
(***************************************************************************)
\* the best score the search of depth d returned
BestScore(d) ==
    LET arr == Scores(heur, game, d)
    IN CHOOSE v \in {arr[x] : x \in 0 .. 3} : \A x \in 0 .. 3 : arr[x] <= v

\* the first valid move of snake 0 in the order Up, Right, Down, Left, or
\* Up if it has none
FirstValidOrUp(g) ==
    LET valid == {d \in DirSet : MoveIsValid(g, 0, d)}
    IN IF valid = {} THEN Up ELSE CHOOSE d \in valid : \A e \in valid : d <= e

SlowPath == timeout > FAST_TIMEOUT

(***************************************************************************)
(* C12: when the search of some depth returns a score <= LOSS, the driver  *)
(* stops iterating and drops the move, and the answer of the turn is the   *)
(* fallback move, not a direction chosen by the search.                    *)
(***************************************************************************)
C12_LossFallsBack ==
    (pc = "done" /\ SlowPath) =>
        \A k \in 1 .. Len(searched) :
            BestScore(searched[k]) <= LOSS =>
                /\ k = Len(searched)
                /\ \A n \in 1 .. Len(published) : published[n][1] # searched[k]
                /\ answer = FirstValidOrUp(game)

(***************************************************************************)
(* C13: if the deadline fires before any depth has published a direction,  *)
(* step returns the first valid move of snake 0 in the order Up, Right,    *)
(* Down, Left, or Up if snake 0 has no valid move.                         *)
(***************************************************************************)
C13_DeadlineFallback ==
    (pc = "done" /\ SlowPath /\ interrupted > 0 /\ published = <<>>)
        => answer = FirstValidOrUp(game)

\* the deadline fired during the first depth and the fallback was Right,
\* Up being no valid move
C13_Witness ==
    /\ pc = "done"
    /\ SlowPath
    /\ interrupted = 1
    /\ published = <<>>
    /\ ~MoveIsValid(game, 0, Up)
    /\ answer = Right

(***************************************************************************)
(* C14: with a budget below FAST_TIMEOUT step performs exactly one depth-1 *)
(* search and no iterative deepening, and returns that search's best       *)
(* direction if its score is above LOSS, otherwise the first valid move of *)
(* snake 0.                                                                *)
(***************************************************************************)
C14_FastPath ==
    (pc = "done" /\ timeout < FAST_TIMEOUT) =>
        /\ searched = <<1>>
        /\ published = <<>> /\ chan = <<>> /\ interrupted = 0
        /\ LET arr == Scores(heur, game, 1)
           IN IF BestScore(1) > LOSS
              THEN arr[answer] = BestScore(1)
              ELSE answer = FirstValidOrUp(game)

\* the one search found nothing above LOSS although Right is a valid move,
\* and the fast path returned Right, the first valid move
C14_Witness ==
    /\ pc = "done"
    /\ timeout < FAST_TIMEOUT
    /\ searched = <<1>>
    /\ BestScore(1) <= LOSS
    /\ ~MoveIsValid(game, 0, Up)
    /\ MoveIsValid(game, 0, Right)
    /\ answer = Right

(***************************************************************************)
(* The latest frontier element of the flood fill, for the properties of    *)
(* the claim rule.                                                         *)
(***************************************************************************)
FloodStepped == felem.len > 0
\* the cells the element looked at
Visited == {p \in Cells : \E d \in DirSet : p = Apply(felem.p, d)}
\* what the element carries into the cell p
HealthInto(p) ==
    IF game.grid[p].food THEN 100
    ELSE LET lost == IF game.grid[p].hazard THEN HAZARD_DAMAGE ELSE 1
         IN IF felem.health > lost THEN felem.health - lost ELSE 0
FoodInto(p) == felem.food + (IF game.grid[p].food THEN 1 ELSE 0)
LenInto(p) == felem.len + (IF game.grid[p].food THEN 1 ELSE 0)
\* the elements the latest expansion put into the queue
Enqueued == {fqueue[k] : k \in (Len(fqueue) - Cardinality(fclaimed) + 1) .. Len(fqueue)}
\* the cell p was left as it was and not expanded
LeftAlone(p) ==
    /\ p \notin fclaimed
    /\ fcells[p] = fbefore[p]
    /\ \A e \in Enqueued : e.p # p
\* the cells Owned by another snake than the element's before the expansion
OwnedByOther == {p \in Visited : fbefore[p].tag = "Owned" /\ fbefore[p].id # felem.id}
OccupiedCells == {p \in Visited : fbefore[p].tag = "Occupied"}

(***************************************************************************)
(* C15: a frontier element of snake A that reaches a cell Owned by another *)
(* snake B at the same distance takes it over iff A's length is greater    *)
(* than B's recorded length, or the lengths are equal and A's id is        *)
(* smaller than B's; a cell Owned at another distance is never taken over. *)
(***************************************************************************)
C15_Original ==
    FloodStepped =>
        \A p \in OwnedByOther :
            p \in fclaimed <=>
                /\ fbefore[p].distance = felem.distance
                /\ \/ LenInto(p) > fbefore[p].len
                   \/ LenInto(p) = fbefore[p].len /\ felem.id < fbefore[p].id

\* C15 as amended: the element takes the cell over iff the health it
\* carries into the cell is above 0, the distances are the same, and A's
\* length is greater than B's recorded length or the lengths are equal and
\* A's id is larger than B's.
C15_TakeOver ==
    FloodStepped =>
        \A p \in OwnedByOther :
            /\ p \in fclaimed <=>
                  /\ HealthInto(p) > 0
                  /\ fbefore[p].distance = felem.distance
                  /\ \/ LenInto(p) > fbefore[p].len
                     \/ LenInto(p) = fbefore[p].len /\ felem.id > fbefore[p].id
            /\ p \in fclaimed => fcells[p].id = felem.id
            /\ p \notin fclaimed => fcells[p] = fbefore[p]

\* in one expansion a cell was taken over from a snake of the same length
\* and a cell Owned at another distance was left
C15_Witness ==
    /\ FloodStepped
    /\ \E p \in OwnedByOther :
          /\ p \in fclaimed
          /\ LenInto(p) = fbefore[p].len
          /\ fcells[p].id = felem.id
    /\ \E q \in OwnedByOther :
          /\ fbefore[q].distance # felem.distance
          /\ LenInto(q) > fbefore[q].len
          /\ q \notin fclaimed

(***************************************************************************)
(* C16: a cell occupied by a body segment is claimed by a frontier element *)
(* exactly when the segment will have vacated by then: a segment of the    *)
(* element's own snake iff tail_dist + food eaten on the path <= distance, *)
(* a segment of another snake iff tail_dist <= distance; otherwise the     *)
(* cell stays Occupied and is not expanded.                                *)
(***************************************************************************)
Vacated(p) ==
    IF fbefore[p].id = felem.id
    THEN fbefore[p].tail_dist + FoodInto(p) <= felem.distance
    ELSE fbefore[p].tail_dist <= felem.distance

C16_Original ==
    FloodStepped =>
        \A p \in OccupiedCells :
            /\ p \in fclaimed <=> Vacated(p)
            /\ p \notin fclaimed => LeftAlone(p)

\* C16 as amended: the cell is claimed exactly when the segment will have
\* vacated and the health the element carries into the cell is above 0.
C16_FollowTail ==
    FloodStepped =>
        \A p \in OccupiedCells :
            /\ p \in fclaimed <=> (Vacated(p) /\ HealthInto(p) > 0)
            /\ p \notin fclaimed => LeftAlone(p)

\* in one expansion the element claimed a cell of its own body and left
\* another one Occupied
C16_Witness ==
    /\ FloodStepped
    /\ \E p, q \in OccupiedCells :
          /\ fbefore[p].id = felem.id /\ p \in fclaimed
          /\ fcells[p].tag = "Owned"
          /\ fbefore[q].id = felem.id /\ q \notin fclaimed
          /\ fcells[q].tag = "Occupied"

(***************************************************************************)
(* C17: the health carried along a claiming path is 100 on a Food cell and *)
(* otherwise reduced by HAZARD_DAMAGE on a hazardous cell or by 1,         *)
(* saturating at 0; an element whose health reaches 0 claims nothing and   *)
(* is not enqueued, so every Owned cell records a health above 0.          *)
(***************************************************************************)
C17_CarriedHealth ==
    /\ \A c \in Cells : fcells[c].tag = "Owned" => fcells[c].health > 0
    /\ \A k \in 1 .. Len(fqueue) : fqueue[k].health > 0
    /\ FloodStepped =>
          \A p \in Visited :
              /\ p \in fclaimed =>
                    /\ fcells[p].health = HealthInto(p)
                    /\ \E e \in Enqueued : e.p = p /\ e.health = HealthInto(p)
              /\ HealthInto(p) = 0 => LeftAlone(p)

\* in one expansion a free cell was claimed with the health reduced by 1,
\* and a free hazardous cell was left because the health ran out there
C17_Witness ==
    /\ FloodStepped
    /\ \E p, q \in Visited :
          /\ p \in fclaimed
          /\ fbefore[p] = FFree
          /\ fcells[p].health = felem.health - 1
          /\ game.grid[q].hazard
          /\ fbefore[q] = FFree
          /\ HealthInto(q) = 0
          /\ fcells[q] = FFree

(***************************************************************************)
(* C18: for a single living snake of length 3 at full health on a board    *)
(* without food and hazards, the flood fill claims every cell of the board *)
(* for that snake, wherever the snake is placed.                           *)
(***************************************************************************)
\* the game is one snake of length 3 at full health on an empty board
LoneSnake ==
    /\ Len(game.snakes) = 1
    /\ Len(game.snakes[1].body) = 3
    /\ game.snakes[1].health = 100
    /\ \A c \in Cells : ~game.grid[c].food /\ ~game.grid[c].hazard

AllClaimed == \A c \in Cells : fcells[c].tag = "Owned" /\ fcells[c].id = 0

C18_Original == (fpc = "done" /\ LoneSnake) => AllClaimed

\* C18 as amended: the snake's head cell holds no other segment of its body.
C18_LoneSnakeClaimsAll ==
    (fpc = "done" /\ LoneSnake /\ game.snakes[1].body[2] # game.snakes[1].body[3])
        => AllClaimed

\* a snake in the corner with its body along the edge got the whole board
C18_Witness ==
    /\ fpc = "done"
    /\ LoneSnake
    /\ game.snakes[1].body = <<<<2, 0>>, <<1, 0>>, <<0, 0>>>>
    /\ AllClaimed

(***************************************************************************)
(* Minimax over the tree of max_n, written without loops or pruning:       *)
(* snake 0 takes the highest value over its valid moves (LOSS when it has  *)
(* none), every other snake the lowest over its valid moves, and a snake   *)
(* without a valid move - a dead one included - is passed over with the    *)
(* entry the action array already holds.  After the last snake the game    *)
(* is stepped and valued as the simulate branch values it.                 *)
(***************************************************************************)
Highest(S) == CHOOSE v \in S : \A w \in S : w <= v
Lowest(S) == CHOOSE v \in S : \A w \in S : v <= w

RECURSIVE Minimax(_, _, _, _, _)
Minimax(g, n, ply, actions, h) ==
    IF ply = Len(g.snakes) THEN
        LET g2 == StepGame(g, actions)
            o == Outcome(g2)
        IN CASE o.tag = "Winner" -> IF o.id = 0 THEN WIN + Eval(h, g2) ELSE LOSS
             [] o.tag = "Match"  -> DRAW
             [] OTHER            -> IF n <= 1 THEN Eval(h, g2)
                                    ELSE Minimax(g2, n - 1, 0, AllUp, h)
    ELSE
        LET valid == {d \in DirSet : MoveIsValid(g, ply, d)}
            vals == {Minimax(g, n, ply + 1, [actions EXCEPT ![ply + 1] = d], h) :
                        d \in valid}
        IN IF valid = {}
           THEN IF ply = 0 THEN LOSS ELSE Minimax(g, n, ply + 1, actions, h)
           ELSE IF ply = 0 THEN Highest(vals) ELSE Lowest(vals)

(***************************************************************************)
(* C19: for heuristics with values strictly between LOSS and WIN, max_n    *)
(* returns LOSS for every direction that is not a valid move of snake 0    *)
(* and, for every valid direction, the minimax value of that move; the     *)
(* early exit of a min node at LOSS changes no score.                      *)
(***************************************************************************)
C19_MaxNScores ==
    spc = "done" =>
        \A d \in 0 .. 3 :
            sscores[d] = IF MoveIsValid(game, 0, d)
                         THEN Minimax(game, sdepth, 1, [AllUp EXCEPT ![1] = d], sheur)
                         ELSE LOSS

\* max_n has run two plies deep on a game of three snakes in which snake 0
\* has an invalid direction, a valid one that scores LOSS although snake 1
\* has several answers to it, and a valid one that scores above LOSS.
C19_Witness ==
    /\ spc = "done"
    /\ sdepth = 2
    /\ Len(game.snakes) = 3
    /\ \E d \in DirSet : ~MoveIsValid(game, 0, d)
    /\ \E d \in DirSet : MoveIsValid(game, 0, d) /\ sscores[d] > LOSS
    /\ \E d \in DirSet :
          /\ MoveIsValid(game, 0, d)
          /\ sscores[d] = LOSS
          /\ Cardinality({e \in DirSet : MoveIsValid(game, 1, e)}) >= 2

(***************************************************************************)
(* C20: after every simulated step of max-n and of alpha-beta the node's   *)
(* value is WIN plus the heuristic of the resulting game if snake 0 is     *)
(* the only survivor, LOSS if snake 0 is dead while some other snake is    *)
(* alive, and DRAW if no snake is alive.                                   *)
(***************************************************************************)
OthersAlive == \E i \in 1 .. Len(game.snakes) - 1 : SnakeIsAlive(game, i)

C20_TerminalValues ==
    spc \in {"maxn", "alphabeta"} =>
        /\ SnakeIsAlive(game, 0) /\ ~OthersAlive => svalue = WIN + Eval(sheur, game)
        /\ ~SnakeIsAlive(game, 0) /\ OthersAlive => svalue = LOSS
        /\ ~SnakeIsAlive(game, 0) /\ ~OthersAlive => svalue = DRAW

(***************************************************************************)
(* Minimax over the tree of alphabeta, written without loops, window or    *)
(* pruning: snake 0 takes the highest value over the four directions,      *)
(* every other snake the lowest; the leaves are valued as the simulate     *)
(* branch of alphabeta_rec values them.                                    *)
(***************************************************************************)
RECURSIVE PlainMinimax(_, _, _, _, _)
PlainMinimax(g, actions, n, ply, h) ==
    IF ply = Len(g.snakes) THEN
        LET g2 == StepGame(g, actions)
            o == Outcome(g2)
        IN CASE o.tag = "Winner" -> IF o.id = 0 THEN WIN ELSE LOSS
             [] o.tag = "Match"  -> DRAW
             [] OTHER            -> IF n = 0 THEN Eval(h, g2)
                                    ELSE PlainMinimax(g2, AllUp, n - 1, 0, h)
    ELSE
        LET vals == {PlainMinimax(g, [actions EXCEPT ![ply + 1] = d], n, ply + 1, h) :
                        d \in DirSet}
        IN IF ply = 0 THEN Highest(vals) ELSE Lowest(vals)

(***************************************************************************)
(* C21: on a two-snake game alphabeta returns the value of plain minimax   *)
(* over the same tree and, when that value is above LOSS, a root           *)
(* direction whose minimax value is that value.                            *)
(***************************************************************************)
C21_AlphaBetaIsMinimax ==
    spc = "abdone" /\ Len(game.snakes) = 2 =>
        /\ svalue = PlainMinimax(game, AllUp, sdepth, 0, sheur)
        /\ svalue > LOSS =>
              PlainMinimax(game, [AllUp EXCEPT ![1] = sdir], sdepth, 1, sheur) = svalue

\* alphabeta has searched two plies of a two-snake game, returned a value
\* above LOSS with a direction other than Up, and some root direction is
\* worse than the one returned.
C21_Witness ==
    /\ spc = "abdone"
    /\ Len(game.snakes) = 2
    /\ sdepth = 1
    /\ svalue > LOSS
    /\ sdir # Up
    /\ \E d \in DirSet :
          PlainMinimax(game, [AllUp EXCEPT ![1] = d], sdepth, 1, sheur) < svalue

(***************************************************************************)
(* C22: depth is counted in full plies in both searches: a search called   *)
(* with depth d >= 1 evaluates the heuristic only on games reached after   *)
(* exactly d simulated step() calls.  steps counts the calls made on the   *)
(* path and sdepth + steps is the depth the search was called with, so     *)
(* that d calls have been made when sdepth is 0.                           *)
(***************************************************************************)
C22_DepthInFullPlies ==
    spc \in {"maxn", "alphabeta"} /\ sdepth + steps >= 1 /\ sevaluated => sdepth = 0

(***************************************************************************)
(* C23: in the parallel search tasks are created only at the root, one per *)
(* legal direction of snake 0 and at most four per search; the code of a   *)
(* child task creates no further task.                                     *)
(***************************************************************************)
C23_TasksOnlyAtRoot ==
    /\ Cardinality(tasks) <= 4
    /\ \A t \in tasks : t.parent = <<>>

(***************************************************************************)
(* Grid::a_star: the path returned.                                        *)
(***************************************************************************)
AStarFree(c) == CoreHas(agrid, c) /\ agrid.cells[c] # "Occupied"

\* the cells a walk from the cells of S over cells not Occupied arrives at
RECURSIVE AStarReach(_)
AStarReach(S) ==
    LET T == S \cup {Apply(c, d) : c \in S, d \in DirSet}
        N == S \cup {c \in T : AStarFree(c)}
    IN IF N = S THEN S ELSE AStarReach(N)

IsBetween(a, b, x) == (a <= x /\ x <= b) \/ (b <= x /\ x <= a)

\* no snake and no hazard in the rectangle spanned by start and target
AStarClear ==
    \A c \in DOMAIN agrid.cells :
        IsBetween(astart[1], atarget[1], c[1]) /\ IsBetween(astart[2], atarget[2], c[2])
        /\ c # astart
        => agrid.cells[c] # "Occupied" /\ ~IsHazardous(agrid, c)

\* C24: a path a_star returns starts at start, ends at target, goes from
\* neighbour to neighbour and enters no Occupied cell; where no snake and
\* no hazard lies in the rectangle between start and target and the
\* first-move costs are zero it has as many moves as the Manhattan
\* distance; a_star returns a path only to a target that can be reached
\* and None only for a target that cannot.
C24_AStarPath ==
    /\ apc = "found" =>
          /\ Len(apath) >= 1
          /\ apath[1] = astart
          /\ apath[Len(apath)] = atarget
          /\ \A i \in 1..(Len(apath) - 1) :
                \E d \in DirSet : apath[i + 1] = Apply(apath[i], d)
          /\ \A i \in 2..Len(apath) : AStarFree(apath[i])
          /\ atarget \in AStarReach({astart})
          /\ AStarClear /\ acosts = <<0, 0, 0, 0>> =>
                Len(apath) - 1
                    = Manhattan(<<atarget[1] - astart[1], atarget[2] - astart[2]>>)
    /\ apc = "none" => atarget \notin AStarReach({astart})

\* a path around a snake, longer than the Manhattan distance
C24_Witness ==
    /\ apc = "found"
    /\ \E c \in DOMAIN agrid.cells : agrid.cells[c] = "Occupied"
    /\ Len(apath) - 1 > Manhattan(<<atarget[1] - astart[1], atarget[2] - astart[2]>>)

\* cost of the move from u in direction d, in hundredths
AStarMoveCost(u, d) ==
    COST_SCALE
    + (IF IsHazardous(agrid, Apply(u, d)) THEN HAZARD_DAMAGE * COST_SCALE ELSE 0)
    + (IF u = astart THEN acosts[d + 1] ELSE 0)

RECURSIVE AStarPathCost(_, _)
AStarPathCost(path, i) ==
    IF i >= Len(path) THEN 0
    ELSE LET d == CHOOSE e \in DirSet : path[i + 1] = Apply(path[i], e)
         IN AStarMoveCost(path[i], d) + AStarPathCost(path, i + 1)

\* the least costs of the walks from start, as pairs of cell and cost: L
\* holds one pair for every cell reached so far
RECURSIVE AStarLeast(_)
AStarLeast(L) ==
    LET C == L \cup {<<Apply(m[1][1], m[2]), m[1][2] + AStarMoveCost(m[1][1], m[2])>> :
                        m \in {n \in L \X DirSet : AStarFree(Apply(n[1][1], n[2]))}}
        N == {e \in C : \A o \in C : o[1] = e[1] => e[2] <= o[2]}
    IN IF N = L THEN L ELSE AStarLeast(N)

\* C25: the path a_star returns costs as little as any path from start to
\* target, a move costing 1, 15 more into a hazard, and the first move its
\* first-move cost more.
C25_LeastCost ==
    apc = "found" =>
        <<atarget, AStarPathCost(apath, 1)>> \in AStarLeast({<<astart, 0>>})

(***************************************************************************)
(* Game::reset_from_request: the snakes of the game.                       *)
(***************************************************************************)
\* the snakes of the board other than you
OtherSnakes == SelectSeq(request.board.snakes, LAMBDA s : s.id # request.you.id)

YouHead == request.you.body[1]

\* the least distance of a body cell of a snake of the request to your head
RequestDist(s) ==
    Lowest({Manhattan(<<s.body[i][1] - YouHead[1], s.body[i][2] - YouHead[2]>>) :
               i \in 1..Len(s.body)})

\* the snake of the game at place i is the snake s of the request
IsSnakeOf(i, s) ==
    game.snakes[i] = SnakeNew(i - 1, Rev(s.body), s.health)

\* C26: of a request with more than four snakes the game holds four: you
\* with id 0 and three others with ids 1 to 3, none of them farther from
\* your head (least Manhattan distance over the cells of the body) than a
\* snake left out; of a request with at most four snakes it holds all, you
\* first and the others in the order of the board, each id its index.
C26_ClosestFour ==
    rpc = "done" =>
        /\ IsSnakeOf(1, request.you)
        /\ \A i \in 1..Len(game.snakes) : game.snakes[i].id = i - 1
        /\ IF Len(request.board.snakes) > 4
           THEN /\ Len(game.snakes) = 4
                /\ \E kept \in SUBSET (1..Len(OtherSnakes)) :
                      /\ Cardinality(kept) = 3
                      /\ \A i \in 2..4 : \E k \in kept : IsSnakeOf(i, OtherSnakes[k])
                      /\ \A k \in kept : \E i \in 2..4 : IsSnakeOf(i, OtherSnakes[k])
                      /\ \A k \in kept : \A d \in (1..Len(OtherSnakes)) \ kept :
                            RequestDist(OtherSnakes[k]) <= RequestDist(OtherSnakes[d])
           ELSE /\ Len(game.snakes) = Len(request.board.snakes)
                /\ \A k \in 1..Len(OtherSnakes) : IsSnakeOf(k + 1, OtherSnakes[k])

\* six snakes on the board, the first of the others left out because it is
\* farther from your head than the others kept
C26_Witness ==
    /\ rpc = "done"
    /\ Len(request.board.snakes) = 6
    /\ Len(game.snakes) = 4
    /\ \A i \in 2..4 : ~IsSnakeOf(i, OtherSnakes[1])
    /\ \A i \in 2..4 : \E k \in 2..5 :
          /\ IsSnakeOf(i, OtherSnakes[k])
          /\ RequestDist(OtherSnakes[k]) < RequestDist(OtherSnakes[1])

(***************************************************************************)
(* The simulation harness: the moves of two runs.                          *)
(***************************************************************************)
\* the direction iterative_tree_search has sent last when no deadline
\* stops it, from depth d on
RECURSIVE Undisturbed(_, _, _, _)
Undisturbed(h, g, d, last) ==
    LET arr == Scores(h, g, d)
        am == Argmax(arr)
    IN IF am = NoDir \/ arr[am] <= LOSS THEN last
       ELSE IF arr[am] >= WIN \/ d + 1 >= MAX_DEPTH THEN am
       ELSE Undisturbed(h, g, d + 1, am)

\* the move of the run of step() that no deadline stops
UndisturbedMove ==
    IF timeout <= FAST_TIMEOUT THEN StepFast(heur, game)
    ELSE LET last == Undisturbed(heur, game, 1, NoDir)
         IN IF last # NoDir THEN last ELSE Fallback(game)

\* C27: two runs with the same seed, agents and options make the same
\* moves.  The run in which the deadline stops no search is one of the
\* runs, so every run of step() on the same game with the same agent and
\* timeout has to return the move of that run.
C27_SameMoves == pc = "done" => answer = UndisturbedMove

(***************************************************************************)
(* max_n at two depths.                                                    *)
(***************************************************************************)
BestRoot(scores) == Highest({scores[d] : d \in 0 .. 3})

\* in every game max_n_rec arrives at within n plies, every snake but
\* snake 0 has at most one valid move
RECURSIVE OpponentsFixed(_, _)
OpponentsFixed(g, n) ==
    \/ n = 0
    \/ /\ \A i \in 1 .. (Len(g.snakes) - 1) :
             Cardinality({d \in DirSet : MoveIsValid(g, i, d)}) <= 1
       /\ \A a \in MaxNActions(g) :
             \/ Outcome(StepGame(g, a)).tag # "None"
             \/ OpponentsFixed(StepGame(g, a), n - 1)

\* C28 as stated: with the moves of the other snakes fixed, the best root
\* score of max_n one ply deeper is at least the best root score of max_n.
C28_Original ==
    spc = "done" /\ OpponentsFixed(game, sdepth + 1) =>
        BestRoot(MaxN(game, sdepth + 1, sheur)) >= BestRoot(sscores)

\* C28: with the moves of the other snakes fixed, a best root score of
\* max_n that is at least WIN is not lowered by searching one ply deeper.
C28_WinStays ==
    spc = "done" /\ OpponentsFixed(game, sdepth + 1) /\ BestRoot(sscores) >= WIN =>
        BestRoot(MaxN(game, sdepth + 1, sheur)) >= BestRoot(sscores)

\* max_n has found a win on its second ply against a snake that has one
\* valid move, and the moves of the other snakes are fixed a ply deeper
C28_Witness ==
    /\ spc = "done"
    /\ sdepth = 2
    /\ Len(game.snakes) >= 2
    /\ Cardinality({d \in DirSet : MoveIsValid(game, 1, d)}) = 1
    /\ OpponentsFixed(game, sdepth + 1)
    /\ BestRoot(sscores) >= WIN
    /\ BestRoot(MaxN(game, 1, sheur)) < WIN

(***************************************************************************)
(* The depths of the iterative deepening.                                  *)
(***************************************************************************)
\* no search of the run was stopped: no deadline, no score <= LOSS or >= WIN
RanToTheEnd ==
    /\ pc = "done"
    /\ timeout > FAST_TIMEOUT
    /\ interrupted = 0
    /\ \A i \in 1 .. Len(searched) :
          BestScore(searched[i]) > LOSS /\ BestScore(searched[i]) < WIN

\* C29: the driver searches the depths 1, 2, 3, ... in this order, each
\* once; a run that nothing stops searches the depth MAX_DEPTH last; after
\* a depth whose score is at least WIN no deeper search starts.
C29_DepthsToCeiling ==
    /\ \A i \in 1 .. Len(searched) : searched[i] = i
    /\ \A i \in 1 .. (Len(searched) - 1) : BestScore(searched[i]) < WIN
    /\ RanToTheEnd => Len(searched) >= 1 /\ searched[Len(searched)] = MAX_DEPTH

(***************************************************************************)
(* MobilityAgent::step: the move returned.                                 *)
(***************************************************************************)
LooksForFood == mlen < MIN_LEN \/ mhealth < HEALTH_THRESHOLD

\* the food directions whose area after the move is above the bound
FoodAbove(bound) == {e \in FoodDirs(mfood) : mspace[e[2]] > bound}

\* the move is right for the food directions Q that qualify: a cheapest of
\* them; without one the direction of the largest area if that is
\* positive; else a valid move, or Up
MoveBy(Q) ==
    IF LooksForFood /\ Q # {}
    THEN \E e \in Q : mmove = e[2] /\ \A o \in Q : e[1] <= o[1]
    ELSE IF \E d \in DirSet : mspace[d] > 0
    THEN \A d \in DirSet : mspace[d] <= mspace[mmove]
    ELSE IF mvalid # {} THEN mmove \in mvalid
    ELSE mmove = Up

\* C30 as stated: the food direction has to have an area after the move
\* that exceeds the body length minus one.
C30_Original == mpc = "done" => MoveBy(FoodAbove(mlen - 1))

\* C30: looking for food (length below MIN_LEN or health below
\* HEALTH_THRESHOLD) the agent returns the cheapest food direction whose
\* area after the move is at least the body length minus one; without one,
\* or not looking for food, the direction of the largest area after the
\* move if that area is positive; otherwise a valid move, or Up if there
\* is none.
C30_MobilityMove == mpc = "done" => MoveBy(FoodAbove(mlen - 2))

\* the agent returns a food direction whose area is the body length minus
\* one, after the cheaper food direction was left for its small area,
\* although another direction has more area
C30_Witness ==
    /\ mpc = "done"
    /\ LooksForFood
    /\ \E e \in FoodDirs(mfood) :
          /\ mmove = e[2]
          /\ mspace[mmove] = mlen - 1
          /\ \E o \in FoodDirs(mfood) : o[1] < e[1] /\ mspace[o[2]] < mlen - 1
    /\ \E d \in DirSet : mspace[d] > mspace[mmove]


(***************************************************************************)
(* C31.  The list returned by flood_snakes holds exactly one entry for     *)
(* each food cell that is Owned by snake 0 when the fill ends (up to the   *)
(* capacity of four), the entry being the distance at which snake 0        *)
(* claimed the cell, and no entry for food claimed by another snake.       *)
(***************************************************************************)
FoodOwnedByYou ==
    {c \in Cells : game.grid[c].food /\ fcells[c].tag = "Owned" /\ fcells[c].id = 0}

C31_FoodDistances ==
    fpc = "done" =>
        LET list == FixedVecDeref(ffood)
            most == IF Cardinality(FoodOwnedByYou) < 4
                    THEN Cardinality(FoodOwnedByYou) ELSE 4
        IN /\ Len(list) = most
           /\ \E f \in [1 .. Len(list) -> FoodOwnedByYou] :
                  /\ \A i, j \in 1 .. Len(list) : f[i] = f[j] => i = j
                  /\ \A i \in 1 .. Len(list) : list[i] = fcells[f[i]].distance

(***************************************************************************)
(* C32.  After step() no cell that a snake's head moved onto in that step  *)
(* still carries Food, whether or not the entering snake survives.         *)
(***************************************************************************)
\* the snakes whose head was pushed onto a cell of the board
Entered == {i \in Movers : Has(NewHead(i))}

C32_FoodConsumedOnEntry ==
    Stepped => \A i \in Entered : ~game.grid[NewHead(i)].food

(***************************************************************************)
(* C33.  step() never changes a cell's hazard flag or the width and height *)
(* of the grid, never adds Food to a cell, and never removes Food from a   *)
(* cell that no snake's head moved onto in that step.                      *)
(***************************************************************************)
C33_StepFrame ==
    Stepped =>
        /\ DOMAIN game.grid = DOMAIN prev.grid
        /\ \A c \in Cells :
              /\ game.grid[c].hazard = prev.grid[c].hazard
              /\ game.grid[c].food => prev.grid[c].food
              /\ prev.grid[c].food /\ ~game.grid[c].food
                    => \E i \in Entered : NewHead(i) = c

\* a step in which a snake ate the food of a hazardous cell
C33_Witness ==
    /\ Stepped
    /\ \E i \in Entered :
          /\ Alive(game.snakes[i])
          /\ prev.grid[NewHead(i)].food
          /\ prev.grid[NewHead(i)].hazard
          /\ ~game.grid[NewHead(i)].food

(***************************************************************************)
(* C34.  step() never adds, removes or reorders snakes (snakes[i].id = i   *)
(* before and after), and a snake that is dead after a step stays in the   *)
(* list with health 0 and an empty body and is not alive after any later   *)
(* step.                                                                   *)
(***************************************************************************)
C34_SnakeListFixed ==
    Stepped =>
        /\ Len(game.snakes) = Len(prev.snakes)
        /\ \A i \in Ids(game) :
              /\ prev.snakes[i].id = i - 1
              /\ game.snakes[i].id = i - 1
              /\ ~Alive(game.snakes[i])
                    => game.snakes[i].health = 0 /\ game.snakes[i].body = <<>>
              /\ ~Alive(prev.snakes[i]) => ~Alive(game.snakes[i])

\* a second step with a snake that died in the first one, its body on the
\* board when it died, and a snake that lives on
C34_Witness ==
    /\ steps = 2
    /\ \E i, j \in Ids(game) :
          /\ ~Alive(prev.snakes[i])
          /\ prev.snakes[i].body = <<>>
          /\ game.snakes[i].health = 0
          /\ Alive(game.snakes[j])
          /\ game.snakes[j].health = 100

(***************************************************************************)
(* C35.  A FixedVec of capacity N behaves as a bounded LIFO stack under    *)
(* any sequence of push and pop: push stores the value, returns true and   *)
(* increases len by one iff len < N; a push on a full vector returns false *)
(* and changes nothing; pop returns the most recently pushed element not   *)
(* yet popped, or None when empty; len never exceeds N.                    *)
(***************************************************************************)
\* the stack of capacity N after the first k calls of the history
RECURSIVE StackAfter(_, _, _)
StackAfter(hist, k, N) ==
    IF k = 0 THEN <<>>
    ELSE LET stack == StackAfter(hist, k - 1, N)
             call == hist[k]
         IN IF call.op = "push"
            THEN (IF Len(stack) < N THEN Append(stack, call.arg) ELSE stack)
            ELSE (IF stack = <<>> THEN stack ELSE SubSeq(stack, 1, Len(stack) - 1))

C35_BoundedStack ==
    LET N == FixedVecCapacity(vec)
        calls == Len(vhist)
        stack == StackAfter(vhist, calls, N)
    IN /\ vec.len <= N
       /\ vec.len = Len(stack)
       /\ FixedVecDeref(vec) = stack
       /\ calls > 0 =>
             LET before == StackAfter(vhist, calls - 1, N) IN
             IF vhist[calls].op = "push"
             THEN /\ vret.ret <=> vbefore.len < N
                  /\ vbefore.len < N =>
                        /\ vec.len = vbefore.len + 1
                        /\ vec.data[vec.len] = vhist[calls].arg
                        /\ \A i \in 1 .. vbefore.len : vec.data[i] = vbefore.data[i]
                  /\ vbefore.len >= N => vec = vbefore
             ELSE /\ vret.ret = (IF before = <<>> THEN None ELSE before[Len(before)])
                  /\ vbefore.len = 0 => vret.ret = None /\ vec = vbefore
                  /\ vbefore.len > 0 => vec.len = vbefore.len - 1

\* as in the test fixed_vec: a vector of capacity four was filled, a fifth
\* push was turned down, and the pop that follows returns the fourth value
C35_Witness ==
    /\ FixedVecCapacity(vec) = 4
    /\ Len(vhist) = 6
    /\ \A k \in 1 .. 5 : vhist[k].op = "push"
    /\ vhist[5].arg # vhist[4].arg
    /\ vhist[6].op = "pop"
    /\ vret.ret = vhist[4].arg
    /\ vec.len = 3

(***************************************************************************)
(* C36.  When two, three or four living snakes move their heads onto the   *)
(* same cell in one step, a snake survives the head-to-head iff its body   *)
(* is strictly longer than the body of every other snake on that cell,     *)
(* whatever the positions of the snakes in the snake list.                 *)
(***************************************************************************)
\* the snakes whose head moved onto cell c
HeadsOn(c) == {i \in Entered : NewHead(i) = c}

StrictlyLongest(i, on) ==
    \A j \in on \ {i} : Len(prev.snakes[i].body) > Len(prev.snakes[j].body)

C37_AnswerIsValid ==
    (pc = "done" /\ ValidMoves(game, 0) # <<>>) => MoveIsValid(game, 0, answer)

\* iterative deepening returned a valid move although the heuristic scores
\* a move that is not valid higher
C37_Witness ==
    /\ pc = "done"
    /\ timeout > FAST_TIMEOUT
    /\ published # <<>>
    /\ MoveIsValid(game, 0, answer)
    /\ \E x \in DirSet :
          /\ ~MoveIsValid(game, 0, x)
          /\ \A k \in 1 .. Len(published) :
                (IF published[k][1] < heur.from THEN heur.first ELSE heur.later)[x]
                    > Scores(heur, game, published[k][1])[published[k][2]]

(***************************************************************************)
(* C38.  Within one turn the driver publishes no more directions than the  *)
(* result channel can hold (capacity MAX_DEPTH), so publishing a result    *)
(* never suspends the search waiting for the receiver, which starts        *)
(* draining only after the search has finished or timed out.               *)
(***************************************************************************)
C38_ChannelNeverFull ==
    /\ Len(published) <= MAX_DEPTH
    /\ Len(chan) <= Len(published)
    /\ pc = "search" =>
          /\ Len(chan) < MAX_DEPTH
          /\ Len(chan) = Len(published)
          /\ result = NoDir
    /\ result # NoDir => pc \in {"drain", "done"}

\* the search ran through all its depths and every direction it sent is
\* still in the channel when the drain begins
C38_Witness ==
    /\ pc = "drain"
    /\ interrupted = 0
    /\ Len(published) = MAX_DEPTH - 1
    /\ Len(chan) = Len(published)
    /\ result = NoDir

(***************************************************************************)
(* C39.  async_max_n(G, d, h) returns the same four scores as the          *)
(* sequential max_n(G, d, h), whatever the order in which the spawned      *)
(* subtree tasks run and complete.                                         *)
(***************************************************************************)
C39_AsyncIsMaxN ==
    spc = "done" => sscores = MaxN(game, sdepth, sheur)

\* a search of depth 2 has returned: two root tasks, whose scores differ,
\* each of which had to wait for the tasks of a max node
C39_Witness ==
    /\ spc = "done"
    /\ sdepth = 2
    /\ \E d, e \in DirSet :
          /\ MoveIsValid(game, 0, d) /\ MoveIsValid(game, 0, e)
          /\ sscores[d] > sscores[e]
          /\ sscores[e] > LOSS
          /\ \E a \in DirSet :
                LET g2 == StepGame(game, [AllUp EXCEPT ![1] = d, ![2] = a])
                IN /\ MoveIsValid(game, 1, a)
                   /\ Outcome(g2).tag = "None"
                   /\ Cardinality({x \in DirSet : MoveIsValid(g2, 0, x)}) >= 2

(***************************************************************************)
(* C40.  FloodFill's flood always terminates: every cell is claimed or     *)
(* claimed again only finitely many times, so the frontier queue becomes   *)
(* empty and flood returns, for every board, set of snakes, food layout    *)
(* and hazard layout.                                                      *)
(***************************************************************************)
C40_FloodTerminates == <>(fpc = "done" /\ fqueue = <<>>)

\* a fill of two snakes has returned, in which a food cell that snake 0 had
\* claimed was claimed again by snake 1
C40_Witness ==
    /\ fpc = "done"
    /\ fqueue = <<>>
    /\ Len(game.snakes) = 2
    /\ ffood.len > Cardinality(FoodOwnedByYou)
====
